---------------------------- MODULE Spec2Model ----------------------------
(***************************************************************************)
(* A model of the island generator of src/index.tsx.                       *)
(*                                                                         *)
(* Three specifications share this module.                                 *)
(*   Spec        the event loop of IslandGeneratorApp: button handlers,    *)
(*               the 20 ms timers of generateIsland,                       *)
(*               regenerateTerrainAndWater and generateFoliage, file       *)
(*               loading, and the feature lists the passes read and write. *)
(*   SpecPaths   generateGraphPaths as a step-by-step computation:         *)
(*               Bowyer-Watson insertion, edge filtering, Kruskal, loops.  *)
(*   SpecTerrain the carving and relaxation block of generateIsland on a   *)
(*               small radial mesh with fixed-point heights.               *)
(*                                                                         *)
(* Coordinates are integers.  Where the source compares quotients of       *)
(* doubles the model compares the cross-multiplied integers, so every      *)
(* geometric test is the exact value of the source's expression.           *)
(***************************************************************************)
EXTENDS Integers, Sequences, FiniteSets, TLC

(***************************************************************************)
(* Bounds of the model.                                                    *)
(***************************************************************************)
\* lakes the Add Lake handler is allowed to accumulate
MaxLakes == 1
\* mud puddles the Add Mud Puddle handler is allowed to accumulate
MaxPuddles == 1
\* pending 20 ms timers a click may add to
MaxTimers == 2
\* files offered by one selection in the rock model input
MaxFiles == 2
\* file selections whose readers may be pending together
MaxLoads == 1
\* nodes the sampling loop of generateGraphPaths may place (pathPointsInput)
MaxNodes == 4

(***************************************************************************)
(* Program constants.                                                      *)
(***************************************************************************)
\* for (let attempt = 0; attempt < 200; attempt++)
PlacementAttempts == 200
\* requiredDist = other.baseRadius + feature.baseRadius + 2.0
PlacementGap == 2

VARIABLES
    \* ---- Spec: IslandGeneratorApp fields and DOM state ----
    rockModels,                  \* this.rockModels.length
    loads,                       \* file batches whose readers are pending
    lakes,                       \* this.lakes
    mudPuddles,                  \* this.mudPuddles
    currentInnerFoliageBoundary, \* polygon of the last pass, << >> when cleared
    islandSurface,               \* 0 = null, else the identity of the mesh
    generateButtonDisabled,      \* generateButton.disabled
    generatePathButtonDisabled,  \* generatePathButton.disabled
    loadingOverlay,              \* loadingOverlay.style.display = 'flex'
    timers,                      \* pending setTimeout(..., 20) callbacks, FIFO
    lastAttempts,                \* most attempts one feature used in the last pass
    \* ---- SpecPaths: the locals of generateGraphPaths ----
    pathPhase,                   \* the statement generateGraphPaths has reached
    lakeContours,                \* contourPoints of the lakes that have one
    nodes,                       \* nodes: the placed (x, y, z) points
    triangles,                   \* triangles of delaunayTriangulation
    pointIx,                     \* points.forEach position: points inserted so far
    allEdges,                    \* allEdges, sorted once built
    parent,                      \* uf.parent
    edgeIx,                      \* allEdges.forEach position of Kruskal
    mstEdges,                    \* mstEdges
    remainingEdges,              \* remainingEdges
    loopPercentage,              \* parseInt(pathLoopingInput.value), in percent
    finalEdges,                  \* finalEdges
    \* ---- the terrain block of generateIsland ----
    terrainStage,                \* the statement the block has reached
    relaxIt,                     \* pass / it of the loop that is running
    terrainLakes,                \* this.lakes as the block reads it
    terrainPuddles,              \* this.mudPuddles as the block reads it
    blendedY,                    \* finalY of every vertex before carving
    vertices,                    \* vertices[i*3 + 1]
    heights,                     \* heights (Float32Array)
    influence,                   \* influence (Float32Array)
    expandMask,                  \* expandMask (Uint8Array)
    grassIndicesFinal,           \* grassIndicesFinal
    mudIndicesFinal,             \* mudIndicesFinal
    mergedIndices,               \* the index buffer of the final mesh
    groups,                      \* the groups of the final geometry
    \* ---- placeFoliageOnMesh ----
    foliagePhase,                \* the loop placeFoliageOnMesh has reached
    foliageMesh,                 \* positions and indices of targetMesh.geometry
    foliageOptions,              \* the inputs and the boundaries of the options
    faceIx,                      \* i / 3 of the face loop
    validFaces,                  \* validFaces
    totalArea,                   \* totalArea
    numInstances,                \* numInstances
    instanceIx,                  \* i of the instance loop
    pivotPoints,                 \* pivotPoints, one for each instance added
    \* ---- the sampling loop and the ribbons of generateGraphPaths ----
    numPoints,                   \* parseInt(pathPointsInput.value)
    attempts,                    \* attempts
    pathGroup,                   \* the ribbon meshes of this.pathGroup
    \* ---- the feature block of generateIsland, with its numbers ----
    featurePhase,                \* the statement the block has reached
    allFeatures,                 \* [...this.lakes, ...this.mudPuddles]
    featureIx,                   \* the position of the forEach that is running
    passIsRegeneration,          \* isRegeneration of the pass
    baseTerrain,                 \* getBaseTerrainHeightAt of the pass
    \* ---- createPathRibbon and the statement that adds its mesh ----
    ribbonPhase,                 \* the statement the call has reached
    path3D,                      \* the points of the path
    pathNormals,                 \* the surface normal at every point
    pathWidth,                   \* the width of the ribbon
    ribbonK,                     \* k of the loop that is running
    ribbonVertices,              \* vertices: three numbers for every vertex
    ribbonIndices,               \* indices: three numbers for every triangle
    pathMesh,                    \* what the call returned
    \* ---- generateNoise ----
    noisePhase,                  \* the statement the call has reached
    noiseCount,                  \* the argument numPoints
    phaseOffset,                 \* the argument phaseOffset, in eighths of a turn
    harmonics,                   \* customHarmonics, or the four defaults
    harmonicIx,                  \* the harmonics that are added already
    totalAmplitude,              \* the sum of the amplitudes, in thousandths
    noiseValues,                 \* noiseValues, in thousandths
    \* ---- smoothAndProjectPath ----
    smoothPhase,                 \* the statement the call has reached
    rawPath,                     \* the argument rawPath
    divisions,                   \* the argument divisions
    sampleIx,                    \* i of the sampling loop
    smoothedPoints,              \* smoothedPoints, in thousandths
    projected,                   \* the path and the normals that are returned
    \* ---- getBaseTerrainHeightAt and the vertex loop of the central mesh ----
    basePhase,                   \* the statement that is reached
    contourVertices,             \* centralContourVertices, positions in 1/4096
    centerY,                     \* centerPoint.y, in thousandths
    ringR,                       \* r of the vertex loop
    segS,                        \* s of the vertex loop
    meshVertices,                \* basePointXZ and the uncarved finalY of each vertex
    baseHeights                  \* getBaseTerrainHeightAt at each of these vertices

uiVars == <<rockModels, loads, lakes, mudPuddles, currentInnerFoliageBoundary,
            islandSurface, generateButtonDisabled, generatePathButtonDisabled,
            loadingOverlay, timers, lastAttempts>>

pathVars == <<pathPhase, lakeContours, nodes, triangles, pointIx, allEdges, parent,
              edgeIx, mstEdges, remainingEdges, loopPercentage, finalEdges>>

terrainVars == <<terrainStage, relaxIt, terrainLakes, terrainPuddles, blendedY, vertices,
                 heights, influence, expandMask, grassIndicesFinal, mudIndicesFinal,
                 mergedIndices, groups>>

foliageVars == <<foliagePhase, foliageMesh, foliageOptions, faceIx, validFaces, totalArea,
                 numInstances, instanceIx, pivotPoints>>

\* the variables of the routines that are modelled on their own
samplingVars == <<numPoints, attempts, pathGroup>>

featureVars == <<featurePhase, allFeatures, featureIx, passIsRegeneration, baseTerrain>>

ribbonVars == <<ribbonPhase, path3D, pathNormals, pathWidth, ribbonK, ribbonVertices,
                ribbonIndices, pathMesh>>

noiseVars == <<noisePhase, noiseCount, phaseOffset, harmonics, harmonicIx, totalAmplitude,
               noiseValues>>

smoothVars == <<smoothPhase, rawPath, divisions, sampleIx, smoothedPoints, projected>>

baseVars == <<basePhase, contourVertices, centerY, ringR, segS, meshVertices, baseHeights>>

unitVars ==
    <<foliageVars, samplingVars, featureVars, ribbonVars, noiseVars, smoothVars, baseVars>>

vars == <<uiVars, pathVars, terrainVars, unitVars>>

\* what the event loop, generateGraphPaths and the terrain block leave alone
nonUIVars == <<pathVars, terrainVars, unitVars>>
nonPathVars == <<uiVars, terrainVars, unitVars>>
nonTerrainVars == <<uiVars, pathVars, unitVars>>
nonFoliageVars ==
    <<uiVars, pathVars, terrainVars, samplingVars, featureVars, ribbonVars, noiseVars, smoothVars, baseVars>>
nonFeatureVars ==
    <<uiVars, pathVars, terrainVars, foliageVars, samplingVars, ribbonVars, noiseVars, smoothVars, baseVars>>
nonNoiseVars ==
    <<uiVars, pathVars, terrainVars, foliageVars, samplingVars, featureVars, ribbonVars,
      smoothVars, baseVars>>
nonSmoothVars ==
    <<uiVars, pathVars, terrainVars, foliageVars, samplingVars, featureVars, ribbonVars,
      noiseVars, baseVars>>
nonBaseVars ==
    <<uiVars, pathVars, terrainVars, foliageVars, samplingVars, featureVars, ribbonVars,
      noiseVars, smoothVars>>
\* createPathRibbon leaves these alone; its caller adds to pathGroup
nonRibbonVars ==
    <<uiVars, pathVars, terrainVars, foliageVars, featureVars, noiseVars, smoothVars,
      baseVars, numPoints, attempts>>

(***************************************************************************)
(* Planar geometry.                                                        *)
(***************************************************************************)
Pt(px, pz) == [x |-> px, z |-> pz]

\* center?: THREE.Vector2 -- the value of an unset center
NoCenter == Pt(-1, -1)

Min2(a, b) == IF a < b THEN a ELSE b
Max2(a, b) == IF a > b THEN a ELSE b

\* One edge (i, j) of the even-odd ray cast:
\*   ((zi > y) !== (zj > y)) && (x < (xj - xi) * (y - zi) / (zj - zi) + xi)
\* with the division cleared by the sign of (zj - zi).
RayCrosses(p, a, b) ==
    /\ (a.z > p.z) # (b.z > p.z)
    /\ LET d == b.z - a.z
           n == (b.x - a.x) * (p.z - a.z)
       IN  IF d > 0 THEN (p.x - a.x) * d < n ELSE (p.x - a.x) * d > n

RECURSIVE CrossCount(_, _, _)
CrossCount(p, poly, i) ==
    IF i > Len(poly) THEN 0
    ELSE LET j == IF i = 1 THEN Len(poly) ELSE i - 1
         IN  (IF RayCrosses(p, poly[i], poly[j]) THEN 1 ELSE 0)
             + CrossCount(p, poly, i + 1)

\* isPointInPolygon(point, polygon: Vector3[]) on the (x, z) projection
IsPointInPolygon(p, poly) == CrossCount(p, poly, 1) % 2 = 1

\* isPointInPolygon2D(point, polygon: Vector2[]): the same loop on (x, y)
IsPointInPolygon2D(p, poly) == CrossCount(p, poly, 1) % 2 = 1


(***************************************************************************)
(* Inputs of the event loop: the values the DOM inputs and the random      *)
(* contour of a pass are drawn from.                                       *)
(***************************************************************************)
\* parseFloat(this.lakeRadiusInput.value)
LakeRadii == {1}
\* parseFloat(this.mudPuddleRadiusInput.value)
PuddleRadii == {1}

\* innerFoliageBoundaryPoints of one pass: a wide rectangle, a triangle that
\* leaves part of its bounding box outside, and a square too small for any
\* feature.
BoundaryPolygons ==
    { <<Pt(0, 0), Pt(8, 0), Pt(8, 4), Pt(0, 4)>>,
      <<Pt(0, 0), Pt(8, 0), Pt(0, 4)>>,
      <<Pt(0, 0), Pt(2, 0), Pt(2, 2), Pt(0, 2)>> }

(***************************************************************************)
(* Features (interface Lake, interface MudPuddle).  contourPoints,         *)
(* avgRimHeight and waterLevel hold whether the field is defined.          *)
(***************************************************************************)
NewLake(fid, r) ==
    [type |-> "lake", id |-> fid, baseRadius |-> r, center |-> NoCenter,
     contourPoints |-> FALSE, avgRimHeight |-> FALSE, waterLevel |-> FALSE,
     afterRequest |-> FALSE]

NewMudPuddle(fid, r) ==
    [type |-> "mud_puddle", id |-> fid, baseRadius |-> r, center |-> NoCenter,
     contourPoints |-> FALSE, avgRimHeight |-> FALSE, waterLevel |-> FALSE]

SeqRange(s) == {s[i] : i \in 1..Len(s)}

FeatureIds(ls, ps) == {f.id : f \in SeqRange(ls) \cup SeqRange(ps)}

\* id: Math.random() -- a value no feature of the lists carries
FreshId(ls, ps) ==
    CHOOSE n \in 1..(Len(ls) + Len(ps) + 1) : n \notin FeatureIds(ls, ps)

(***************************************************************************)
(* Part 1 of the feature block: placement of the features with no center.  *)
(***************************************************************************)
MinOf(S) == CHOOSE m \in S : \A n \in S : m <= n
MaxOf(S) == CHOOSE m \in S : \A n \in S : m >= n

\* new THREE.Box2().setFromPoints(currentInnerFoliageBoundary ...)
GrassAreaBox(poly) ==
    [minX |-> MinOf({poly[i].x : i \in 1..Len(poly)}),
     maxX |-> MaxOf({poly[i].x : i \in 1..Len(poly)}),
     minZ |-> MinOf({poly[i].z : i \in 1..Len(poly)}),
     maxZ |-> MaxOf({poly[i].z : i \in 1..Len(poly)})]

\* margin = baseRadius * (1.0 + maxIrregularity), in tenths
Margin10(f) == f.baseRadius * (IF f.type = "lake" THEN 14 ELSE 15)

\* grassAreaBox.clone().expandByScalar(-margin), in tenths
PlacementBox(f, poly) ==
    LET b == GrassAreaBox(poly)
    IN  [minX |-> 10 * b.minX + Margin10(f), maxX |-> 10 * b.maxX - Margin10(f),
         minZ |-> 10 * b.minZ + Margin10(f), maxZ |-> 10 * b.maxZ - Margin10(f)]

\* Box2.isEmpty()
BoxIsEmpty(b) == b.maxX < b.minX \/ b.maxZ < b.minZ

\* the values randFloat(min, max) can return
InRandRange(v10, lo, hi) == lo <= v10 /\ (v10 < hi \/ lo = hi)

\* The random centers a pass draws from: two far enough apart for two
\* features, one too close to the first, the last outside the triangle.
CenterSamples == {Pt(2, 2), Pt(3, 2), Pt(6, 2)}

\* new THREE.Vector2(randFloat(min.x, max.x), randFloat(min.y, max.y))
SamplePoints(f, poly) ==
    LET b == PlacementBox(f, poly)
    IN  { p \in CenterSamples :
            /\ InRandRange(10 * p.x, b.minX, b.maxX)
            /\ InRandRange(10 * p.z, b.minZ, b.maxZ) }

DistSq(p, q) == (p.x - q.x) * (p.x - q.x) + (p.z - q.z) * (p.z - q.z)

\* a placement loop that never finds a sample too close
TooCloseNever(p, fs, i) == FALSE

\* the inner loop over allFeatures: randomCenter.distanceTo(other.center) < requiredDist
TooClose(p, fs, i) ==
    \E j \in 1..Len(fs) :
        /\ fs[j].center # NoCenter
        /\ fs[j].id # fs[i].id
        /\ LET requiredDist == fs[j].baseRadius + fs[i].baseRadius + PlacementGap
           IN  DistSq(p, fs[j].center) < requiredDist * requiredDist

\* a sample the attempt loop accepts
SampleAccepted(p, fs, i, poly) ==
    IsPointInPolygon(p, poly) /\ ~TooClose(p, fs, i)

\* The random samples of one feature's loop: `fails` samples equal to `bad`,
\* then `pt` for every later attempt.
SampleAt(draw, attempt) == IF attempt < draw.fails THEN draw.bad ELSE draw.pt

\* a placement loop that allows one attempt more
AttemptLimitPlusOne == PlacementAttempts + 1

\* the attempt bound of the placement loop
AttemptLimit == PlacementAttempts

\* The attempt at which the sample sequence next changes: the accept test
\* reads nothing but the sample, so the attempts in between repeat the
\* rejection of this one.
NextSample(draw, attempt) ==
    IF attempt < draw.fails THEN Min2(draw.fails, AttemptLimit) ELSE AttemptLimit

\* for (let attempt = 0; attempt < 200; attempt++) { ... center = randomCenter; break; }
RECURSIVE PlacementLoop(_, _, _, _, _)
PlacementLoop(fs, i, poly, draw, attempt) ==
    IF attempt >= AttemptLimit
    THEN [center |-> NoCenter, attempts |-> attempt]
    ELSE IF SampleAccepted(SampleAt(draw, attempt), fs, i, poly)
         THEN [center |-> SampleAt(draw, attempt), attempts |-> attempt + 1]
         ELSE PlacementLoop(fs, i, poly, draw, NextSample(draw, attempt))

\* The sample sequences offered to feature i: every first accepted point,
\* reached at once or after PlacementAttempts - 1 rejected samples, and the
\* sequences with no accepted sample at all.
Draws(fs, i, poly) ==
    LET S   == SamplePoints(fs[i], poly)
        Bad == {p \in S : ~SampleAccepted(p, fs, i, poly)}
    IN  {[fails |-> 0, bad |-> p, pt |-> p] : p \in S}
        \cup (IF Bad = {} THEN {}
              ELSE {[fails |-> PlacementAttempts - 1,
                     bad |-> CHOOSE b \in Bad : TRUE, pt |-> p] : p \in S})

\* a placement pass that places every feature again
SkipPlacedNever(f) == FALSE

\* if (feature.center) return;  -- a centered feature is skipped
SkipPlaced(f) == f.center # NoCenter

\* The body of allFeatures.forEach(feature => ...) of Part 1 for feature i:
\* the features after it, and the attempts it used.
PlaceFeature(fs, i, poly, draw) ==
    IF SkipPlaced(fs[i]) \/ BoxIsEmpty(PlacementBox(fs[i], poly))
    THEN [fs |-> fs, attempts |-> 0]
    ELSE LET r == PlacementLoop(fs, i, poly, draw, 0)
         IN  [fs |-> [fs EXCEPT ![i].center = r.center], attempts |-> r.attempts]

\* Every result of Part 1 from feature i on: the feature list and the most
\* attempts one feature used.
RECURSIVE PlaceAll(_, _, _, _)
PlaceAll(fs, i, poly, most) ==
    IF i > Len(fs) THEN {[fs |-> fs, attempts |-> most]}
    ELSE IF SkipPlaced(fs[i]) \/ BoxIsEmpty(PlacementBox(fs[i], poly))
         THEN PlaceAll(fs, i + 1, poly, most)
         ELSE UNION { LET r == PlaceFeature(fs, i, poly, d)
                      IN  PlaceAll(r.fs, i + 1, poly, Max2(most, r.attempts))
                      : d \in Draws(fs, i, poly) }

(***************************************************************************)
(* Invalidation on regeneration and Part 2 (contours, rim height, level).  *)
(***************************************************************************)
\* allFeatures.forEach(f => { f.contourPoints = undefined; ... })
Invalidate(f) ==
    [f EXCEPT !.contourPoints = FALSE, !.avgRimHeight = FALSE, !.waterLevel = FALSE]

\* if (!feature.center || feature.contourPoints) return; ... the contour has
\* 32 or 200 points, so count > 0 and the rim height is always set.
GenerateContour(f) ==
    IF f.center = NoCenter \/ f.contourPoints THEN f
    ELSE [f EXCEPT !.contourPoints = TRUE, !.avgRimHeight = TRUE,
                   !.waterLevel = (f.type = "lake")]

MapSeq(Op(_), s) == [i \in 1..Len(s) |-> Op(s[i])]


(***************************************************************************)
(* The event loop.  Every setTimeout of the source has the same delay of   *)
(* 20 ms, so the callbacks run in the order they were scheduled: timers is *)
(* a FIFO queue.  The code that follows an await of an already settled     *)
(* promise runs before the next event, so it belongs to the same action.   *)
(***************************************************************************)
\* the callback generateIsland awaits: resolve of setTimeout(resolve, 20)
GenTimer(isRegeneration, byRegenerate) ==
    [kind |-> "gen", regen |-> isRegeneration, nested |-> byRegenerate, mesh |-> 0]

\* the callback regenerateTerrainAndWater awaits
RegenTimer == [kind |-> "regen", regen |-> TRUE, nested |-> FALSE, mesh |-> 0]

\* setTimeout(() => { ... placeFoliageOnMesh({targetMesh, ...}) ... }, 20)
FoliageTimer(m) == [kind |-> "foliage", regen |-> FALSE, nested |-> FALSE, mesh |-> m]

\* a generateIsland(false) of the Generate button waits for its timer
FullGenerationPending ==
    \E i \in 1..Len(timers) : timers[i].kind = "gen" /\ ~timers[i].regen

\* generateIsland invocations between their entry and their finally block
InFlight == {i \in 1..Len(timers) : timers[i].kind = "gen"}

\* new THREE.Mesh(...): an identity that neither the mesh it replaces nor
\* a pending foliage callback carries
FreshMesh(tq, old) ==
    CHOOSE m \in 1..(Len(tq) + 2) : m # old /\ \A i \in 1..Len(tq) : tq[i].mesh # m

\* the file lists a change event of the rock model input can carry:
\* n files, of which `good` parse, `bad` are rejected and the rest skipped
FileSelections ==
    {[n |-> n, good |-> g, bad |-> b] :
        n \in 0..MaxFiles, g \in 0..MaxFiles, b \in 0..MaxFiles} \cap
    {sel \in [n : 0..MaxFiles, good : 0..MaxFiles, bad : 0..MaxFiles] :
        sel.good + sel.bad <= sel.n}

UIInit ==
    /\ rockModels = 0
    /\ loads = << >>
    /\ lakes = << >>
    /\ mudPuddles = << >>
    /\ currentInnerFoliageBoundary = << >>
    /\ islandSurface = 0
    /\ generateButtonDisabled \in BOOLEAN
    /\ generatePathButtonDisabled \in BOOLEAN
    /\ loadingOverlay = FALSE
    /\ timers = << >>
    /\ lastAttempts = 0

\* generateButton 'click' -> generateIsland() up to its first await
ClickGenerate ==
    /\ ~generateButtonDisabled
    /\ rockModels # 0
    /\ Len(timers) < MaxTimers
    /\ loadingOverlay' = TRUE
    /\ generateButtonDisabled' = TRUE
    /\ timers' = Append(timers, GenTimer(FALSE, FALSE))
    /\ UNCHANGED <<rockModels, loads, lakes, mudPuddles, currentInnerFoliageBoundary,
                   islandSurface, generatePathButtonDisabled, lastAttempts>>
    /\ UNCHANGED nonUIVars

\* regenerateTerrainAndWater() up to its first await, as called by a handler
\* that has already changed the lists to ls and ps
RegenerateTerrainAndWater(ls, ps) ==
    /\ lakes' = ls
    /\ mudPuddles' = ps
    /\ IF rockModels = 0
       THEN UNCHANGED <<loadingOverlay, timers>>
       ELSE /\ Len(timers) < MaxTimers
            /\ loadingOverlay' = TRUE
            /\ timers' = Append(timers, RegenTimer)
    /\ UNCHANGED <<rockModels, loads, currentInnerFoliageBoundary, islandSurface,
                   generateButtonDisabled, generatePathButtonDisabled, lastAttempts>>
    /\ UNCHANGED nonUIVars

\* addLakeButton 'click'
\* (afterRequest is history, not a field of the source: a generateIsland(false)
\* was waiting for its timer when the lake was pushed)
HandleAddLake ==
    /\ Len(lakes) < MaxLakes
    /\ \E r \in LakeRadii :
          RegenerateTerrainAndWater(
              Append(lakes, [NewLake(FreshId(lakes, mudPuddles), r)
                                EXCEPT !.afterRequest = FullGenerationPending]),
              mudPuddles)

\* deleteLakeButton 'click'
HandleDeleteLastLake ==
    /\ Len(lakes) > 0
    /\ RegenerateTerrainAndWater(SubSeq(lakes, 1, Len(lakes) - 1), mudPuddles)

\* addMudPuddleButton 'click'
HandleAddMudPuddle ==
    /\ Len(mudPuddles) < MaxPuddles
    /\ \E r \in PuddleRadii :
          RegenerateTerrainAndWater(
              lakes, Append(mudPuddles, NewMudPuddle(FreshId(lakes, mudPuddles), r)))

\* deleteMudPuddleButton 'click'
HandleDeleteLastMudPuddle ==
    /\ Len(mudPuddles) > 0
    /\ RegenerateTerrainAndWater(lakes, SubSeq(mudPuddles, 1, Len(mudPuddles) - 1))

\* rockModelInput 'change' -> handleFileSelect up to await Promise.all(...)
HandleFileSelect ==
    \E sel \in FileSelections :
        /\ rockModels' = 0
        /\ IF sel.n = 0
           THEN /\ generateButtonDisabled' = TRUE
                /\ UNCHANGED <<loadingOverlay, loads>>
           ELSE IF sel.good + sel.bad = 0
           THEN \* every file is skipped: Promise.all is already resolved
                /\ loadingOverlay' = FALSE
                /\ generateButtonDisabled' = TRUE
                /\ UNCHANGED loads
           ELSE /\ Len(loads) < MaxLoads
                /\ loadingOverlay' = TRUE
                /\ loads' = Append(loads, [good |-> sel.good, bad |-> sel.bad,
                                           settled |-> FALSE])
                /\ UNCHANGED generateButtonDisabled
        /\ UNCHANGED <<lakes, mudPuddles, currentInnerFoliageBoundary, islandSurface,
                       generatePathButtonDisabled, timers, lastAttempts>>
        /\ UNCHANGED nonUIVars

RemoveAt(s, i) == SubSeq(s, 1, i - 1) \o SubSeq(s, i + 1, Len(s))

\* reader.onload of one file of batch i (loadFile), and handleFileSelect's
\* catch/finally when this settles Promise.all
LoadFile ==
    \E i \in 1..Len(loads) : \E parses \in BOOLEAN :
        LET b == loads[i]
            nb == IF parses THEN [b EXCEPT !.good = b.good - 1]
                            ELSE [b EXCEPT !.bad = b.bad - 1]
            settles == ~b.settled /\ (~parses \/ (nb.good = 0 /\ nb.bad = 0))
            done == nb.good = 0 /\ nb.bad = 0
        IN  /\ IF parses THEN b.good > 0 ELSE b.bad > 0
            /\ rockModels' = IF parses THEN rockModels + 1 ELSE rockModels
            /\ loads' = IF done THEN RemoveAt(loads, i)
                        ELSE [loads EXCEPT ![i] = [nb EXCEPT !.settled = b.settled \/ settles]]
            /\ IF settles
               THEN /\ loadingOverlay' = FALSE
                    /\ generateButtonDisabled' = (rockModels' = 0)
               ELSE UNCHANGED <<loadingOverlay, generateButtonDisabled>>
            /\ UNCHANGED <<lakes, mudPuddles, currentInnerFoliageBoundary, islandSurface,
                           generatePathButtonDisabled, timers, lastAttempts>>
            /\ UNCHANGED nonUIVars

\* the timer of regenerateTerrainAndWater: await this.generateIsland(true)
\* up to generateIsland's own await, or through the finally block when
\* generateIsland returns at once
FireRegenTimer ==
    /\ timers # << >>
    /\ Head(timers).kind = "regen"
    /\ IF rockModels = 0
       THEN /\ loadingOverlay' = FALSE
            /\ timers' = Tail(timers)
            /\ UNCHANGED generateButtonDisabled
       ELSE /\ loadingOverlay' = TRUE
            /\ generateButtonDisabled' = TRUE
            /\ timers' = Append(Tail(timers), GenTimer(TRUE, TRUE))
    /\ UNCHANGED <<rockModels, loads, lakes, mudPuddles, currentInnerFoliageBoundary,
                   islandSurface, generatePathButtonDisabled, lastAttempts>>
    /\ UNCHANGED nonUIVars

\* The feature block of one pass on the lists ls and ps: invalidation,
\* Part 1 and Part 2.  The set of its results.
FeatureBlock(ls, ps, isRegeneration, poly) ==
    LET all == ls \o ps
        fs  == IF isRegeneration THEN MapSeq(Invalidate, all) ELSE all
    IN  { [lakes |-> SubSeq(MapSeq(GenerateContour, r.fs), 1, Len(ls)),
           mudPuddles |-> SubSeq(MapSeq(GenerateContour, r.fs), Len(ls) + 1, Len(all)),
           attempts |-> r.attempts] : r \in PlaceAll(fs, 1, poly, 0) }

\* if (!isRegeneration) { this.lakes = []; this.mudPuddles = []; }
ListAfterClear(list, isRegeneration) == IF isRegeneration THEN list ELSE << >>

\* a pass that enables generatePathButton whatever it built
PathButtonEnabledAlways(surface) == FALSE

\* generatePathButton.disabled after the try block: true since
\* disposeAllGeneratedObjects, false once the surface mesh is built
PathButtonAfterPass(surface) == surface = 0

\* the timer of generateIsland: the try block, catch and finally, and the
\* finally of regenerateTerrainAndWater when it is the caller
FireGenTimer ==
    /\ timers # << >>
    /\ Head(timers).kind = "gen"
    /\ LET t  == Head(timers)
           ls == ListAfterClear(lakes, t.regen)
           ps == ListAfterClear(mudPuddles, t.regen)
       IN  \/ \* new Array(NaN) and the like throw before the feature block
              /\ lakes' = ls
              /\ mudPuddles' = ps
              /\ currentInnerFoliageBoundary' = << >>
              /\ islandSurface' = 0
              /\ timers' = Tail(timers)
              /\ lastAttempts' = 0
           \/ \E poly \in BoundaryPolygons : \E r \in FeatureBlock(ls, ps, t.regen, poly) :
                 /\ lakes' = r.lakes
                 /\ mudPuddles' = r.mudPuddles
                 /\ currentInnerFoliageBoundary' = poly
                 /\ islandSurface' = FreshMesh(Tail(timers), islandSurface)
                 /\ timers' = Append(Tail(timers), FoliageTimer(islandSurface'))
                 /\ lastAttempts' = r.attempts
    /\ generatePathButtonDisabled' = PathButtonAfterPass(islandSurface')
    /\ loadingOverlay' = FALSE
    /\ generateButtonDisabled' = (rockModels = 0)
    /\ UNCHANGED <<rockModels, loads>>
    /\ UNCHANGED nonUIVars

\* the callback generateFoliage scheduled
FireFoliageTimer ==
    /\ timers # << >>
    /\ Head(timers).kind = "foliage"
    /\ timers' = Tail(timers)
    /\ loadingOverlay' = FALSE
    /\ UNCHANGED <<rockModels, loads, lakes, mudPuddles, currentInnerFoliageBoundary,
                   islandSurface, generateButtonDisabled, generatePathButtonDisabled,
                   lastAttempts>>
    /\ UNCHANGED nonUIVars

\* generatePathButton 'click' -> generateGraphPaths(): showLoading(true) ...
\* showLoading(false), all in one event
ClickGeneratePaths ==
    /\ ~generatePathButtonDisabled
    /\ islandSurface # 0
    /\ Len(currentInnerFoliageBoundary) >= 3
    /\ loadingOverlay' = FALSE
    /\ UNCHANGED <<rockModels, loads, lakes, mudPuddles, currentInnerFoliageBoundary,
                   islandSurface, generateButtonDisabled, generatePathButtonDisabled,
                   timers, lastAttempts>>
    /\ UNCHANGED nonUIVars

UINext ==
    \/ ClickGenerate
    \/ HandleAddLake
    \/ HandleDeleteLastLake
    \/ HandleAddMudPuddle
    \/ HandleDeleteLastMudPuddle
    \/ HandleFileSelect
    \/ LoadFile
    \/ FireRegenTimer
    \/ FireGenTimer
    \/ FireFoliageTimer
    \/ ClickGeneratePaths

(***************************************************************************)
(* generateGraphPaths.  The node coordinates are even integers, so the     *)
(* midpoints the source computes with * 0.5 and / 2 are integers too.      *)
(***************************************************************************)
\* the (x, z) values of the random test points the sampling loop accepts
NodeCoords == {0, 2, 4}

\* intersects[0].point.y: the height of the island surface over (x, z)
SurfaceHeight(px, pz) == IF px = 2 /\ pz = 2 THEN 2 ELSE IF px = 2 \/ pz = 2 THEN 1 ELSE 0

\* nodes.push(intersects[0].point)
Node(px, pz) == [x |-> px, y |-> SurfaceHeight(px, pz), z |-> pz]

\* lake.contourPoints of the lakes of a scene: no lake, or one lake around
\* the middle of the node area
LakeScenes == { << >>, << <<Pt(1, 1), Pt(3, 1), Pt(3, 3), Pt(1, 3)>> >> }

\* isInLake(x, z)
IsInLake(p, contours) ==
    \E k \in 1..Len(contours) : IsPointInPolygon2D(p, contours[k])

\* the points the sampling loop can accept
NodeSites(contours) ==
    { Node(px, pz) : px \in NodeCoords, pz \in NodeCoords } \
    { n \in { Node(px, pz) : px \in NodeCoords, pz \in NodeCoords } : IsInLake(n, contours) }

\* the node lists the sampling loop can leave: 3 to MaxNodes distinct points
NodeLists(contours) ==
    UNION { { s \in [1..k -> NodeSites(contours)] :
                \A i, j \in 1..k : i # j => s[i] # s[j] } : k \in 3..MaxNodes }

\* ---- delaunayTriangulation ----
\* A vertex is named by its originalIndex 0 .. n-1; the corners p0, p1, p2 of
\* the super-triangle, whose originalIndex is -1, are named -1, -2, -3.
IsSuperVertex(v) == v < 0

BoundsOf(pts) ==
    [minX |-> MinOf({pts[i].x : i \in 1..Len(pts)}),
     maxX |-> MaxOf({pts[i].x : i \in 1..Len(pts)}),
     minZ |-> MinOf({pts[i].z : i \in 1..Len(pts)}),
     maxZ |-> MaxOf({pts[i].z : i \in 1..Len(pts)})]

\* p0, p1, p2 = (midX - 20 deltaMax, midZ - deltaMax), (midX, midZ + 20 deltaMax),
\*              (midX + 20 deltaMax, midZ - deltaMax)
SuperVertex(v, pts) ==
    LET b == BoundsOf(pts)
        dx == b.maxX - b.minX
        dz == b.maxZ - b.minZ
        deltaMax == Max2(dx, dz)
        midX == b.minX + dx \div 2
        midZ == b.minZ + dz \div 2
    IN  IF v = -1 THEN Pt(midX - 20 * deltaMax, midZ - deltaMax)
        ELSE IF v = -2 THEN Pt(midX, midZ + 20 * deltaMax)
        ELSE Pt(midX + 20 * deltaMax, midZ - deltaMax)

\* the (x, z) of a vertex
VertexAt(v, pts) == IF IsSuperVertex(v) THEN SuperVertex(v, pts) ELSE Pt(pts[v + 1].x, pts[v + 1].z)

Triangle(a, b, c) == [v0 |-> a, v1 |-> b, v2 |-> c]

Edge(a, b) == [v0 |-> a, v1 |-> b]

\* [{v0, v1}, {v1, v2}, {v2, v0}]
TriangleEdges(t) == <<Edge(t.v0, t.v1), Edge(t.v1, t.v2), Edge(t.v2, t.v0)>>

SqNorm(p) == p.x * p.x + p.z * p.z

\* D = 2 * (ax * (bz - cz) + bx * (cz - az) + cx * (az - bz))
CircumD(a, b, c) == 2 * (a.x * (b.z - c.z) + b.x * (c.z - a.z) + c.x * (a.z - b.z))

\* ux * D and uz * D
CircumNx(a, b, c) ==
    SqNorm(a) * (b.z - c.z) + SqNorm(b) * (c.z - a.z) + SqNorm(c) * (a.z - b.z)
CircumNz(a, b, c) ==
    SqNorm(a) * (c.x - b.x) + SqNorm(b) * (a.x - c.x) + SqNorm(c) * (b.x - a.x)

\* a bad-triangle test that asks for the point to lie in the closed triangle
\* instead of in its circumcircle
InClosedTriangle(a, b, c, p) ==
    LET s1 == (b.x - a.x) * (p.z - a.z) - (b.z - a.z) * (p.x - a.x)
        s2 == (c.x - b.x) * (p.z - b.z) - (c.z - b.z) * (p.x - b.x)
        s3 == (a.x - c.x) * (p.z - c.z) - (a.z - c.z) * (p.x - c.x)
    IN  (s1 >= 0 /\ s2 >= 0 /\ s3 >= 0) \/ (s1 <= 0 /\ s2 <= 0 /\ s3 <= 0)

\* distSq < triangle.circumcircle.radiusSq, with the circumcenter (ux, uz) =
\* (Nx / D, Nz / D):
\*   (px-ux)^2 + (pz-uz)^2 < (ax-ux)^2 + (az-uz)^2
\*   <=>  |p|^2 - |a|^2 < 2 ((px-ax) ux + (pz-az) uz)
\* and both sides are multiplied by D.  With D = 0 the source divides by
\* zero: ux, uz and radiusSq are infinite or NaN and the comparison is false.
InCircumcircle(a, b, c, p) ==
    LET D   == CircumD(a, b, c)
        lhs == (SqNorm(p) - SqNorm(a)) * D
        rhs == 2 * ((p.x - a.x) * CircumNx(a, b, c) + (p.z - a.z) * CircumNz(a, b, c))
    IN  IF D > 0 THEN lhs < rhs
        ELSE IF D < 0 THEN lhs > rhs
        ELSE FALSE

\* the indices i of the sequence s whose element satisfies Test, in order
RECURSIVE IndicesWhere(_, _, _)
IndicesWhere(Test(_), s, i) ==
    IF i > Len(s) THEN << >>
    ELSE (IF Test(s[i]) THEN <<i>> ELSE << >>) \o IndicesWhere(Test, s, i + 1)

RECURSIVE Flatten(_)
Flatten(ss) == IF ss = << >> THEN << >> ELSE Head(ss) \o Flatten(Tail(ss))

\* badTriangles, as positions in triangles
BadTriangles(tris, p, pts) ==
    LET IsBad(t) == InCircumcircle(VertexAt(t.v0, pts), VertexAt(t.v1, pts),
                                   VertexAt(t.v2, pts), VertexAt(p, pts))
    IN  IndicesWhere(IsBad, tris, 1)

\* (edge.v0 === otherEdge.v0 && edge.v1 === otherEdge.v1) ||
\* (edge.v0 === otherEdge.v1 && edge.v1 === otherEdge.v0)
SameEdge(e, f) == (e.v0 = f.v0 /\ e.v1 = f.v1) \/ (e.v0 = f.v1 /\ e.v1 = f.v0)

\* isShared for an edge of the bad triangle at position i of bad
IsShared(e, tris, bad, i) ==
    \E j \in 1..Len(bad) :
        /\ j # i
        /\ \E k \in 1..3 : SameEdge(e, TriangleEdges(tris[bad[j]])[k])

\* polygon: the edges of the bad triangles no other bad triangle shares
PolygonHole(tris, bad) ==
    Flatten([i \in 1..Len(bad) |->
        LET es == TriangleEdges(tris[bad[i]])
            Open(e) == ~IsShared(e, tris, bad, i)
        IN  [k \in 1..Len(IndicesWhere(Open, es, 1)) |-> es[IndicesWhere(Open, es, 1)[k]]]])

\* the body of points.forEach(point => ...) for the point p
InsertPoint(tris, p, pts) ==
    LET bad  == BadTriangles(tris, p, pts)
        hole == PolygonHole(tris, bad)
        Kept(i) == \A j \in 1..Len(bad) : bad[j] # i
        keep == IndicesWhere(Kept, [i \in 1..Len(tris) |-> i], 1)
    IN  [k \in 1..Len(keep) |-> tris[keep[k]]]
        \o [k \in 1..Len(hole) |-> Triangle(hole[k].v0, hole[k].v1, p)]

\* a return that leaves out the closing filter
WithSuperTriangle(tris) == tris

\* triangles.filter(t => !(... originalIndex === -1 ...))
WithoutSuperTriangle(tris) ==
    LET Real(t) == ~(IsSuperVertex(t.v0) \/ IsSuperVertex(t.v1) \/ IsSuperVertex(t.v2))
        keep == IndicesWhere(Real, tris, 1)
    IN  [k \in 1..Len(keep) |-> tris[keep[k]]]

\* ---- the edge list ----
\* the three isPointInPolygon2D tests on p1, p2 and their midpoint
CrossesLake(p1, p2, contours) ==
    \E k \in 1..Len(contours) :
        \/ IsPointInPolygon2D(p1, contours[k])
        \/ IsPointInPolygon2D(p2, contours[k])
        \/ IsPointInPolygon2D(Pt((p1.x + p2.x) \div 2, (p1.z + p2.z) \div 2), contours[k])

\* the squared distance of two nodes on the map, heights left out
PlanarDistanceSquared(p, q) == (p.x - q.x) * (p.x - q.x) + (p.z - q.z) * (p.z - q.z)

\* p1.distanceToSquared(p2) of two Vector3
DistanceToSquared(p, q) ==
    (p.x - q.x) * (p.x - q.x) + (p.y - q.y) * (p.y - q.y) + (p.z - q.z) * (p.z - q.z)

\* `${Math.min(u,v)},${Math.max(u,v)}`
EdgeKey(u, v) == <<Min2(u, v), Max2(u, v)>>

\* the loop over the triangles' edges: es is the list of (u, v) still to
\* visit, acc is allEdges so far; edgeSet holds the keys of acc
RECURSIVE CollectEdges(_, _, _, _)
CollectEdges(es, acc, pts, contours) ==
    IF es = << >> THEN acc
    ELSE LET u == Head(es).v0
             v == Head(es).v1
             seen == \E k \in 1..Len(acc) : EdgeKey(acc[k].u, acc[k].v) = EdgeKey(u, v)
         IN  IF seen \/ CrossesLake(pts[u + 1], pts[v + 1], contours)
             THEN CollectEdges(Tail(es), acc, pts, contours)
             ELSE CollectEdges(Tail(es),
                      Append(acc, [u |-> u, v |-> v,
                                   weight |-> DistanceToSquared(pts[u + 1], pts[v + 1])]),
                      pts, contours)

\* Array.prototype.sort is stable: an edge goes behind the edges that are
\* not heavier
RECURSIVE InsertByWeight(_, _)
InsertByWeight(s, e) ==
    IF s = << >> THEN <<e>>
    ELSE IF Head(s).weight <= e.weight THEN <<Head(s)>> \o InsertByWeight(Tail(s), e)
    ELSE <<e>> \o s

\* allEdges.sort((a, b) => a.weight - b.weight)
RECURSIVE SortByWeight(_)
SortByWeight(s) ==
    IF s = << >> THEN << >>
    ELSE InsertByWeight(SortByWeight(SubSeq(s, 1, Len(s) - 1)), s[Len(s)])

\* ---- class UnionFind ----
\* new UnionFind(n)
NewUnionFind(n) == [i \in 0..(n - 1) |-> i]

\* the value find(i) returns
RECURSIVE FindRoot(_, _)
FindRoot(p, i) == IF p[i] = i THEN i ELSE FindRoot(p, p[i])

\* parent after find(i): return this.parent[i] = this.find(this.parent[i])
RECURSIVE FindCompress(_, _)
FindCompress(p, i) ==
    IF p[i] = i THEN p ELSE [FindCompress(p, p[i]) EXCEPT ![i] = FindRoot(p, i)]

\* parent after union(i, j)
Union(p, i, j) ==
    LET q == FindCompress(FindCompress(p, i), j)
        rootI == FindRoot(p, i)
        rootJ == FindRoot(p, j)
    IN  IF rootI # rootJ THEN [q EXCEPT ![rootI] = rootJ] ELSE q

\* a Kruskal test that takes every edge
KruskalAcceptsAll(p, e) == TRUE

\* a Kruskal test that takes no edge
KruskalAcceptsNone(p, e) == FALSE

\* uf.find(edge.u) !== uf.find(edge.v)
KruskalAccepts(p, e) == FindRoot(p, e.u) # FindRoot(p, e.v)

\* parseInt(this.pathLoopingInput.value, 10)
LoopPercentages == {0, 50, 100}

\* a selection that always adds a loop when an edge remains
NumLoopsAtLeastOne(n, percent) ==
    IF n > 0 /\ (n * percent) \div 100 = 0 THEN 1 ELSE (n * percent) \div 100

\* a selection that rounds the number of loops up
NumLoopsRoundedUp(n, percent) == (n * percent + 99) \div 100

\* Math.floor(remainingEdges.length * loopPercentage)
NumLoopsToAdd(n, percent) == (n * percent) \div 100

\* remainingEdges.sort(() => Math.random() - 0.5): any order of the edges
Shuffles(s) == { [i \in 1..Len(s) |-> s[f[i]]] : f \in Permutations(1..Len(s)) }

PathsIdle ==
    /\ pathPhase = "idle"
    /\ lakeContours = << >>
    /\ nodes = << >>
    /\ triangles = << >>
    /\ pointIx = 0
    /\ allEdges = << >>
    /\ parent = << >>
    /\ edgeIx = 0
    /\ mstEdges = << >>
    /\ remainingEdges = << >>
    /\ loopPercentage = 0
    /\ finalEdges = << >>

\* generateGraphPaths after the sampling loop has placed at least 3 nodes,
\* at the first statement of delaunayTriangulation
PathsEntry ==
    /\ pathPhase = "triangulate"
    /\ lakeContours \in LakeScenes
    /\ nodes \in NodeLists(lakeContours)
    /\ triangles = <<Triangle(-1, -2, -3)>>
    /\ pointIx = 0
    /\ allEdges = << >>
    /\ parent = << >>
    /\ edgeIx = 0
    /\ mstEdges = << >>
    /\ remainingEdges = << >>
    /\ loopPercentage = 0
    /\ finalEdges = << >>

\* the node lists of the sampling loop in which some point was drawn twice:
\* nothing between randFloat and nodes.push compares a node with the others
\* (here over the corners of the path area)
CornerSites(contours) == { n \in NodeSites(contours) : n.x # 2 /\ n.z # 2 }

CoincidentNodeLists(contours) ==
    UNION { { s \in [1..k -> CornerSites(contours)] :
                \E i, j \in 1..k : i # j /\ s[i] = s[j] } : k \in 3..MaxNodes }

DegenerateEntry ==
    /\ pathPhase = "triangulate"
    /\ lakeContours \in LakeScenes
    /\ nodes \in CoincidentNodeLists(lakeContours)
    /\ triangles = <<Triangle(-1, -2, -3)>>
    /\ pointIx = 0
    /\ allEdges = << >>
    /\ parent = << >>
    /\ edgeIx = 0
    /\ mstEdges = << >>
    /\ remainingEdges = << >>
    /\ loopPercentage = 0
    /\ finalEdges = << >>

\* points.forEach(point => { ... }): one point
InsertNextPoint ==
    /\ pathPhase = "triangulate"
    /\ pointIx < Len(nodes)
    /\ triangles' = InsertPoint(triangles, pointIx, nodes)
    /\ pointIx' = pointIx + 1
    /\ UNCHANGED <<pathPhase, lakeContours, nodes, allEdges, parent, edgeIx, mstEdges,
                   remainingEdges, loopPercentage, finalEdges>>
    /\ UNCHANGED nonPathVars

\* return triangles.filter(...)
ReturnTriangles ==
    /\ pathPhase = "triangulate"
    /\ pointIx = Len(nodes)
    /\ triangles' = WithoutSuperTriangle(triangles)
    /\ pathPhase' = "edges"
    /\ UNCHANGED <<lakeContours, nodes, pointIx, allEdges, parent, edgeIx, mstEdges,
                   remainingEdges, loopPercentage, finalEdges>>
    /\ UNCHANGED nonPathVars

\* triangles.forEach(tri => ...); allEdges.sort(...); new UnionFind(nodes.length)
BuildEdges ==
    /\ pathPhase = "edges"
    /\ allEdges' = SortByWeight(CollectEdges(
                       Flatten([i \in 1..Len(triangles) |-> TriangleEdges(triangles[i])]),
                       << >>, nodes, lakeContours))
    /\ parent' = NewUnionFind(Len(nodes))
    /\ pathPhase' = "kruskal"
    /\ UNCHANGED <<lakeContours, nodes, triangles, pointIx, edgeIx, mstEdges,
                   remainingEdges, loopPercentage, finalEdges>>
    /\ UNCHANGED nonPathVars

\* allEdges.forEach(edge => ...): one edge
KruskalStep ==
    /\ pathPhase = "kruskal"
    /\ edgeIx < Len(allEdges)
    /\ LET edge == allEdges[edgeIx + 1]
           uv   == [u |-> edge.u, v |-> edge.v]
           p    == FindCompress(FindCompress(parent, edge.u), edge.v)
       IN  IF KruskalAccepts(parent, edge)
           THEN /\ parent' = Union(p, edge.u, edge.v)
                /\ mstEdges' = Append(mstEdges, uv)
                /\ UNCHANGED remainingEdges
           ELSE /\ parent' = p
                /\ remainingEdges' = Append(remainingEdges, uv)
                /\ UNCHANGED mstEdges
    /\ edgeIx' = edgeIx + 1
    /\ UNCHANGED <<pathPhase, lakeContours, nodes, triangles, pointIx, allEdges,
                   loopPercentage, finalEdges>>
    /\ UNCHANGED nonPathVars

\* remainingEdges.sort(random); loops = remainingEdges.slice(0, numLoopsToAdd);
\* finalEdges = [...mstEdges, ...loops]
SelectLoops ==
    /\ pathPhase = "kruskal"
    /\ edgeIx = Len(allEdges)
    /\ \E percent \in LoopPercentages : \E shuffled \in Shuffles(remainingEdges) :
          /\ loopPercentage' = percent
          /\ remainingEdges' = shuffled
          /\ finalEdges' = mstEdges \o
                SubSeq(shuffled, 1, NumLoopsToAdd(Len(shuffled), percent))
    /\ pathPhase' = "selected"
    /\ UNCHANGED <<lakeContours, nodes, triangles, pointIx, allEdges, parent, edgeIx,
                   mstEdges>>
    /\ UNCHANGED nonPathVars

PathsNext ==
    \/ InsertNextPoint
    \/ ReturnTriangles
    \/ BuildEdges
    \/ KruskalStep
    \/ SelectLoops

(***************************************************************************)
(* The terrain block of generateIsland: the central mesh, direct carving,  *)
(* the relaxation pass and the material groups.                            *)
(*                                                                         *)
(* Heights are integers in thousandths.  A JavaScript number is any        *)
(* integer; a Float32Array holds even integers only, so a store into       *)
(* heights or tmpHeights rounds.  Influences and profiles are thousandths  *)
(* in 0 .. 1000, blends are ten-thousandths; quotients are truncated.      *)
(***************************************************************************)
\* the rings of the central mesh (numRings = 240 in the source)
NumRings == 2

\* the rings of the ground cover mesh (numRings = 32 in the source)
GroundRings == 1

\* dilationPasses = Math.max(3, this.mudPuddles.length > 0 ? 6 : 3)
DilationPasses(puddles) == Max2(3, IF Len(puddles) > 0 THEN 6 ELSE 3)

\* STAGE1_ITER = this.mudPuddles.length > 0 ? 16 : 8
Stage1Iter(puddles) == IF Len(puddles) > 0 THEN 16 ELSE 8

\* STAGE3_ITER = this.mudPuddles.length > 0 ? 12 : 6
Stage3Iter(puddles) == IF Len(puddles) > 0 THEN 12 ELSE 6

\* a store into a Float32Array: the nearest representable value
Fround(y) == 2 * ((y + 1) \div 2)

\* Math.sqrt on integers, truncated
RECURSIVE IsqrtIn(_, _, _)
IsqrtIn(n, lo, hi) ==
    IF lo >= hi THEN lo
    ELSE LET mid == (lo + hi + 1) \div 2
         IN  IF mid * mid <= n THEN IsqrtIn(n, mid, hi) ELSE IsqrtIn(n, lo, mid - 1)

Isqrt(n) == IsqrtIn(n, 0, 40000)

\* the directions of the inner boundary's points seen from the center
EdgeDirections ==
    <<Pt(1, 0), Pt(1, 1), Pt(0, 1), Pt(-1, 1), Pt(-1, 0), Pt(-1, -1), Pt(0, -1), Pt(1, -1)>>

\* ringLerp = 1 - (1 - t)^2 with t = (r + 1) / (numRings + 1), times
\* (numRings + 1)^2
RingLerpScaled(r) == (NumRings + 1) * (NumRings + 1) - (NumRings - r) * (NumRings - r)

\* centralContourVertices: the boundary lies (numRings + 1)^2 units out, so
\* that every ring vertex has integer coordinates
CentralContourVertices ==
    [s \in 1..Len(EdgeDirections) |->
        Pt((NumRings + 1) * (NumRings + 1) * EdgeDirections[s].x,
           (NumRings + 1) * (NumRings + 1) * EdgeDirections[s].z)]

NumSegments == Len(CentralContourVertices)

\* gridIndices[r][s], with vertex 0 the center
GridIndex(r, s) == 1 + r * NumSegments + s

\* contourIndices[s]
ContourIndex(s) == 1 + NumRings * NumSegments + s

NumVertices == 1 + NumRings * NumSegments + NumSegments

VertexIds == 0..(NumVertices - 1)

\* positionsXZ[vi]: the center, lerp(center, edgePoint, ringLerp), the edge
PositionXZ(vi) ==
    IF vi = 0 THEN Pt(0, 0)
    ELSE IF vi >= ContourIndex(0) THEN CentralContourVertices[vi - ContourIndex(0) + 1]
    ELSE LET r == (vi - 1) \div NumSegments
             s == (vi - 1) % NumSegments
         IN  Pt(EdgeDirections[s + 1].x * RingLerpScaled(r),
                EdgeDirections[s + 1].z * RingLerpScaled(r))

\* allCentralAreaIndices, three indices to a triangle: the fan, the quads
\* between the rings, the quads between the last ring and the contour
AllCentralAreaTriangles ==
    [s \in 1..NumSegments |->
        <<0, GridIndex(0, s - 1), GridIndex(0, s % NumSegments)>>]
    \o Flatten([k \in 1..((NumRings - 1) * NumSegments) |->
        LET r == (k - 1) \div NumSegments
            s == (k - 1) % NumSegments
            next_s == (s + 1) % NumSegments
        IN  << <<GridIndex(r, s), GridIndex(r, next_s), GridIndex(r + 1, next_s)>>,
               <<GridIndex(r, s), GridIndex(r + 1, next_s), GridIndex(r + 1, s)>> >>])
    \o Flatten([k \in 1..NumSegments |->
        LET s == k - 1
            next_s == (s + 1) % NumSegments
        IN  << <<GridIndex(NumRings - 1, s), GridIndex(NumRings - 1, next_s),
                 ContourIndex(next_s)>>,
               <<GridIndex(NumRings - 1, s), ContourIndex(next_s), ContourIndex(s)>> >>])

\* neighbors[vi]
NeighborsOf(vi) ==
    UNION { {t[1], t[2], t[3]} \ {vi} :
            t \in {AllCentralAreaTriangles[k] : k \in
                      {j \in 1..Len(AllCentralAreaTriangles) :
                          vi \in {AllCentralAreaTriangles[j][1],
                                  AllCentralAreaTriangles[j][2],
                                  AllCentralAreaTriangles[j][3]}}} }

\* ---- the features the block reads ----
\* a lake after the feature block: lengths in mesh units, depth and rim
\* height in thousandths, irregularity in percent; the contour keeps
\* between 0.6 and 1.4 of the base radius from the center
TerrainLake(c, rim, d) ==
    [center |-> c, baseRadius |-> 5, irregularity |-> 40, depth |-> d,
     avgRimHeight |-> rim,
     contourPoints |-> <<Pt(c.x - 4, c.z - 4), Pt(c.x + 4, c.z - 4),
                         Pt(c.x + 4, c.z + 4), Pt(c.x - 4, c.z + 4)>>]

\* a mud puddle after the feature block; phase is 6 * phaseOffset in
\* quarter turns, and the contour keeps between 0.85 and 1.15 of the base
\* radius from the center
TerrainPuddle(c, rim, q) ==
    [center |-> c, baseRadius |-> 4, irregularity |-> 15, depth |-> 500,
     avgRimHeight |-> rim, phase |-> q,
     contourPoints |-> <<Pt(c.x + 4, c.z), Pt(c.x + 3, c.z + 3), Pt(c.x, c.z + 4),
                         Pt(c.x - 3, c.z + 3), Pt(c.x - 4, c.z), Pt(c.x - 3, c.z - 3),
                         Pt(c.x, c.z - 4), Pt(c.x + 3, c.z - 3)>>]

\* avgRimHeight of a feature: the mean pre-carve height along its contour
RimHeights == {9501, 10000}

\* this.lakes of a scene
LakeLists ==
    { << >> } \cup
    { <<TerrainLake(PositionXZ(GridIndex(0, 0)), rim, d)>> :
        rim \in RimHeights, d \in {200, 1000} }

\* this.mudPuddles of a scene
PuddleLists ==
    { << >> } \cup
    { <<TerrainPuddle(PositionXZ(GridIndex(0, 4)), rim, q)>> :
        rim \in RimHeights, q \in {0, 1} }

\* finalY before the features carve it, by vertex: level ground, one
\* vertex in a dip, a hill, a bowl, and uneven ground
BlendedTerrains ==
    { [vi \in VertexIds |-> 10001],
      [vi \in VertexIds |-> IF vi = GridIndex(0, 1) THEN 8000 ELSE 10000],
      [vi \in VertexIds |-> 11000 - 50 * (IF vi = 0 THEN 0 ELSE 1 + (vi - 1) \div NumSegments)
                                       * (IF vi = 0 THEN 0 ELSE 1 + (vi - 1) \div NumSegments)],
      [vi \in VertexIds |-> 9000 + 150 * (IF vi = 0 THEN 0 ELSE 1 + (vi - 1) \div NumSegments)
                                       * (IF vi = 0 THEN 0 ELSE 1 + (vi - 1) \div NumSegments)],
      [vi \in VertexIds |-> 9800 + 101 * ((vi * 7) % 5)] }

\* ---- direct carving ----
\* 1 - t*t*(3 - 2*t) for t in thousandths
SmoothFalloff(t) == 1000 - (((t * t) \div 1000) * (3000 - 2 * t)) \div 1000

\* d / maxRadius clamped to [0, 1], for the squared distance dsq and the
\* radius in tenths
RadialFraction(dsq, radius10) ==
    Min2(1000, (Isqrt(dsq * 10000) * 100) \div radius10)

\* maxRadius = lake.baseRadius * (1.0 + (lake.irregularity || 0.4)), in tenths
LakeMaxRadius10(lake) == (lake.baseRadius * (100 + lake.irregularity)) \div 10

\* d < maxRadius
WithinLakeRadius(p, lake) ==
    100 * DistSq(p, lake.center) < LakeMaxRadius10(lake) * LakeMaxRadius10(lake)

\* 1.0 - smoothstep(d, 0, maxRadius), and 1 - t*t*(3 - 2*t) with
\* t = clamp(d / maxRadius, 0, 1)
LakeInfluence(p, lake) ==
    IF WithinLakeRadius(p, lake)
    THEN SmoothFalloff(RadialFraction(DistSq(p, lake.center), LakeMaxRadius10(lake)))
    ELSE 0

\* Math.atan2(dz, dx) in eighths of a turn, rounded down
Octant(dx, dz) ==
    IF dz = 0 THEN (IF dx >= 0 THEN 0 ELSE 4)
    ELSE IF dz > 0
    THEN (IF dx > 0 THEN (IF dz < dx THEN 0 ELSE 1)
          ELSE (IF dz > -dx THEN 2 ELSE 3))
    ELSE (IF dx < 0 THEN (IF -dz < -dx THEN 4 ELSE 5)
          ELSE (IF -dz > dx THEN 6 ELSE 7))

\* Math.sin of a number of quarter turns
SinQuarter(k) == <<0, 1, 0, -1>>[(k % 4) + 1]

\* noiseValue = sin(angle * 6 + phaseOffset * 6) * 1.0 / totalAmplitude for
\* the one harmonic of handleAddMudPuddle, the angle taken at its octant
PuddleNoise(p, puddle) ==
    SinQuarter(3 * Octant(p.x - puddle.center.x, p.z - puddle.center.z) + puddle.phase)

\* boundaryDist = puddle.baseRadius * (1 + noiseValue * (puddle.irregularity || 0.6)),
\* in hundredths
PuddleBoundary100(p, puddle) ==
    puddle.baseRadius * (100 + PuddleNoise(p, puddle) * puddle.irregularity)

\* dist < boundaryDist
WithinPuddle(p, puddle) ==
    10000 * DistSq(p, puddle.center)
        < PuddleBoundary100(p, puddle) * PuddleBoundary100(p, puddle)

\* t = dist / boundaryDist, in thousandths
PuddleFraction(p, puddle) ==
    Min2(1000, (Isqrt(DistSq(p, puddle.center) * 10000) * 1000)
                   \div PuddleBoundary100(p, puddle))

\* 1 - (t * t * (3 - 2 * t)) inside the puddle
PuddleInfluence(p, puddle) ==
    IF WithinPuddle(p, puddle) THEN SmoothFalloff(PuddleFraction(p, puddle)) ELSE 0

\* a carving that takes every lake within whose radius the point lies
RECURSIVE CarveLakesByRadius(_, _, _, _)
CarveLakesByRadius(y, p, ls, k) ==
    IF k > Len(ls) THEN y
    ELSE IF WithinLakeRadius(p, ls[k])
         THEN CarveLakesByRadius(
                  Min2(y, ls[k].avgRimHeight
                          - (ls[k].depth * LakeInfluence(p, ls[k])) \div 1000),
                  p, ls, k + 1)
         ELSE CarveLakesByRadius(y, p, ls, k + 1)

\* this.lakes.forEach(lake => ... finalY = Math.min(finalY, depressionCeiling))
RECURSIVE CarveLakes(_, _, _, _)
CarveLakes(y, p, ls, k) ==
    IF k > Len(ls) THEN y
    ELSE IF IsPointInPolygon2D(p, ls[k].contourPoints)
         THEN CarveLakes(
                  Min2(y, ls[k].avgRimHeight
                          - (ls[k].depth * LakeInfluence(p, ls[k])) \div 1000),
                  p, ls, k + 1)
         ELSE CarveLakes(y, p, ls, k + 1)

\* this.mudPuddles.forEach(puddle => ... finalY = Math.min(finalY, depressionCeiling))
RECURSIVE CarvePuddles(_, _, _, _)
CarvePuddles(y, p, ps, k) ==
    IF k > Len(ps) THEN y
    ELSE IF WithinPuddle(p, ps[k])
         THEN CarvePuddles(
                  Min2(y, ps[k].avgRimHeight
                          - (ps[k].depth * PuddleInfluence(p, ps[k])) \div 1000),
                  p, ps, k + 1)
         ELSE CarvePuddles(y, p, ps, k + 1)

\* the y pushed for vertex vi: the center as it is, the others carved
CarvedY(vi, y, ls, ps) ==
    IF vi = 0 THEN y
    ELSE CarvePuddles(CarveLakes(y, PositionXZ(vi), ls, 1), PositionXZ(vi), ps, 1)

\* ---- the relaxation pass ----
\* influence[vi] = maxInf over the lakes and the mud puddles
RECURSIVE MaxLakeInfluence(_, _, _, _)
MaxLakeInfluence(maxInf, p, ls, k) ==
    IF k > Len(ls) THEN maxInf
    ELSE MaxLakeInfluence(Max2(maxInf, LakeInfluence(p, ls[k])), p, ls, k + 1)

\* mudInfluence[i] = mudInf over the mud puddles
RECURSIVE MaxPuddleInfluence(_, _, _, _)
MaxPuddleInfluence(mudInf, p, ps, k) ==
    IF k > Len(ps) THEN mudInf
    ELSE MaxPuddleInfluence(Max2(mudInf, PuddleInfluence(p, ps[k])), p, ps, k + 1)

InfluenceAt(vi, ls, ps) ==
    MaxPuddleInfluence(MaxLakeInfluence(0, PositionXZ(vi), ls, 1), PositionXZ(vi), ps, 1)

MudInfluenceAt(vi, ps) == MaxPuddleInfluence(0, PositionXZ(vi), ps, 1)

\* if (influence[i] > 0.001 || mudInfluence[i] > 0.001) expandMask[i] = 1
InitialMask(inf, ps) ==
    [vi \in VertexIds |-> inf[vi] > 1 \/ MudInfluenceAt(vi, ps) > 1]

\* one dilation pass: toSet.forEach(idx => expandMask[idx] = 1)
Dilate(mask) ==
    [vi \in VertexIds |-> mask[vi] \/ \E n \in NeighborsOf(vi) : mask[n]]

RECURSIVE SumOver(_, _)
SumOver(h, S) ==
    IF S = {} THEN 0
    ELSE LET n == CHOOSE m \in S : TRUE IN h[n] + SumOver(h, S \ {n})

\* neighAvg = sum / cnt
NeighAvg(h, vi) == SumOver(h, NeighborsOf(vi)) \div Cardinality(NeighborsOf(vi))

\* THREE.MathUtils.lerp(x, y, t) stored into a Float32Array, t in
\* ten-thousandths
LerpStore(x, y, t) == Fround(x + ((y - x) * t) \div 10000)

\* the stage 1 blend that ignores the vertex's influence
Stage1BaseBlendFixed(inf) == 6000

\* baseBlend = 0.6 * influence[vi]
Stage1BaseBlend(inf) == 6 * inf

\* clamp(baseBlend * iterFactor, 0, 0.95) with
\* iterFactor = 1.0 - (it / (STAGE1_ITER - 1)) * 0.5
Stage1Blend(inf, it, iter) ==
    Min2(9500, Max2(0, (Stage1BaseBlend(inf) * (2 * (iter - 1) - it)) \div (2 * (iter - 1))))

\* one iteration of stage 1: tmpHeights.set(heights) ... heights.set(tmpHeights)
Stage1Pass(h, inf, mask, it, iter) ==
    [vi \in VertexIds |->
        IF ~mask[vi] \/ NeighborsOf(vi) = {} THEN h[vi]
        ELSE LerpStore(h[vi], NeighAvg(h, vi), Stage1Blend(inf[vi], it, iter))]

\* desired = Math.min(desired, lakeTarget) over the lakes
RECURSIVE LakeTargets(_, _, _, _)
LakeTargets(desired, p, ls, k) ==
    IF k > Len(ls) THEN desired
    ELSE IF WithinLakeRadius(p, ls[k])
         THEN LakeTargets(
                  Min2(desired, ls[k].avgRimHeight
                                - (ls[k].depth * LakeInfluence(p, ls[k])) \div 1000),
                  p, ls, k + 1)
         ELSE LakeTargets(desired, p, ls, k + 1)

\* profile = 1 - Math.pow(t, 1.5)
PuddleProfile(t) == 1000 - (t * Isqrt(t * 1000)) \div 1000

\* desired = Math.min(desired, puddleTarget) over the mud puddles, with
\* puddleTarget = puddle.avgRimHeight - (puddle.depth * profile * 0.8)
RECURSIVE PuddleTargets(_, _, _, _)
PuddleTargets(desired, p, ps, k) ==
    IF k > Len(ps) THEN desired
    ELSE IF WithinPuddle(p, ps[k])
         THEN PuddleTargets(
                  Min2(desired, ps[k].avgRimHeight
                                - (ps[k].depth * PuddleProfile(PuddleFraction(p, ps[k])) * 8)
                                      \div 10000),
                  p, ps, k + 1)
         ELSE PuddleTargets(desired, p, ps, k + 1)

\* radialTargets[vi] = desired
RadialTarget(h, vi, ls, ps) ==
    Fround(PuddleTargets(LakeTargets(h[vi], PositionXZ(vi), ls, 1), PositionXZ(vi), ps, 1))

\* blend = clamp(inf * 0.85, 0, 0.98)
Stage2Blend(inf) == Min2(9800, Max2(0, (85 * inf) \div 10))

\* stage 2: heights[vi] = lerp(heights[vi], radialTargets[vi], blend)
Stage2Pass(h, inf, mask, ls, ps) ==
    [vi \in VertexIds |->
        IF ~mask[vi] THEN h[vi]
        ELSE LerpStore(h[vi], RadialTarget(h, vi, ls, ps), Stage2Blend(inf[vi]))]

\* clamp(0.45 * influence[vi] * iterFactor, 0, 0.9) with
\* iterFactor = 0.6 + 0.4 * (1 - it / Math.max(1, STAGE3_ITER - 1))
Stage3Blend(inf, it, iter) ==
    Min2(9000, Max2(0,
        (45 * inf * (600 + (400 * (Max2(1, iter - 1) - it)) \div Max2(1, iter - 1)))
            \div 10000))

\* one iteration of stage 3
Stage3Pass(h, inf, mask, it, iter) ==
    [vi \in VertexIds |->
        IF ~mask[vi] \/ NeighborsOf(vi) = {} THEN h[vi]
        ELSE LerpStore(h[vi], NeighAvg(h, vi), Stage3Blend(inf[vi], it, iter))]

\* ---- the material groups ----
\* groundCoverGeometry is built when boundaryPoints and
\* shorelinePointsForMesh have more than two points; both hold the closing
\* point as well
HasGroundCover == NumSegments + 1 > 2 /\ NumSegments > 0

\* gridIndices[r][s] of the ground cover mesh
GroundGridIndex(r, s) == r * NumSegments + s

\* skirtBottomStartIndex
SkirtBottomStartIndex == (GroundRings + 1) * NumSegments

\* groundPositions.length / 3
GroundVertexCount == SkirtBottomStartIndex + NumSegments

\* groundCoverIndices
GroundCoverIndices ==
    Flatten([k \in 1..(GroundRings * NumSegments) |->
        LET r == (k - 1) \div NumSegments
            s == (k - 1) % NumSegments
            next_s == (s + 1) % NumSegments
        IN  <<GroundGridIndex(r, s), GroundGridIndex(r + 1, s), GroundGridIndex(r + 1, next_s),
              GroundGridIndex(r, s), GroundGridIndex(r + 1, next_s), GroundGridIndex(r, next_s)>>])
    \o Flatten([k \in 1..NumSegments |->
        LET s == k - 1
            next_s == (s + 1) % NumSegments
        IN  <<GroundGridIndex(0, s), GroundGridIndex(0, next_s), SkirtBottomStartIndex + next_s,
              GroundGridIndex(0, s), SkirtBottomStartIndex + next_s, SkirtBottomStartIndex + s>>])

\* centroid2D of a triangle, times three
Centroid3(t) ==
    Pt(PositionXZ(t[1]).x + PositionXZ(t[2]).x + PositionXZ(t[3]).x,
       PositionXZ(t[1]).z + PositionXZ(t[2]).z + PositionXZ(t[3]).z)

\* a contour, times three
Times3(poly) == [i \in 1..Len(poly) |-> Pt(3 * poly[i].x, 3 * poly[i].z)]

\* isMud: the centroid lies in the contour of some mud puddle
IsMud(t, ps) ==
    \E k \in 1..Len(ps) : IsPointInPolygon2D(Centroid3(t), Times3(ps[k].contourPoints))

\* the indices pushed onto grassIndicesFinal (mud = FALSE) or mudIndicesFinal
\* (mud = TRUE) from triangle i on
RECURSIVE ClassifiedIndices(_, _, _)
ClassifiedIndices(mud, ps, i) ==
    IF i > Len(AllCentralAreaTriangles) THEN << >>
    ELSE (IF IsMud(AllCentralAreaTriangles[i], ps) = mud
          THEN AllCentralAreaTriangles[i] ELSE << >>)
         \o ClassifiedIndices(mud, ps, i + 1)

\* xs.map(i => i + vertexOffset)
OffsetBy(xs, vertexOffset) == [i \in 1..Len(xs) |-> xs[i] + vertexOffset]

\* geometry.addGroup(start, count, materialIndex)
Group(start, count, materialIndex) ==
    [start |-> start, count |-> count, materialIndex |-> materialIndex]

\* a mud group that starts where the grass group starts
MudStartAtGrass(grassStart, grassLength) == grassStart

\* mudStart = grassStart + grassIndicesOffset.length
MudStart(grassStart, grassLength) == grassStart + grassLength

\* ---- the block as a state machine ----
TerrainIdle ==
    /\ terrainStage = "idle"
    /\ relaxIt = 0
    /\ terrainLakes = << >>
    /\ terrainPuddles = << >>
    /\ blendedY = << >>
    /\ vertices = << >>
    /\ heights = << >>
    /\ influence = << >>
    /\ expandMask = << >>
    /\ grassIndicesFinal = << >>
    /\ mudIndicesFinal = << >>
    /\ mergedIndices = << >>
    /\ groups = << >>

\* the block is entered with the features placed and outlined
TerrainEntry ==
    /\ terrainStage = "build"
    /\ relaxIt = 0
    /\ terrainLakes \in LakeLists
    /\ terrainPuddles \in PuddleLists
    /\ blendedY \in BlendedTerrains
    /\ vertices = << >>
    /\ heights = << >>
    /\ influence = << >>
    /\ expandMask = << >>
    /\ grassIndicesFinal = << >>
    /\ mudIndicesFinal = << >>
    /\ mergedIndices = << >>
    /\ groups = << >>

\* the vertex loops: every y is pushed carved
BuildVertices ==
    /\ terrainStage = "build"
    /\ vertices' = [vi \in VertexIds |->
                       CarvedY(vi, blendedY[vi], terrainLakes, terrainPuddles)]
    /\ terrainStage' = "carved"
    /\ UNCHANGED <<relaxIt, terrainLakes, terrainPuddles, blendedY, heights, influence,
                   expandMask, grassIndicesFinal, mudIndicesFinal, mergedIndices, groups>>
    /\ UNCHANGED nonTerrainVars

\* heights[i] = vertices[i*3 + 1], the influences and the initial mask
LoadHeights ==
    /\ terrainStage = "carved"
    /\ heights' = [vi \in VertexIds |-> Fround(vertices[vi])]
    /\ influence' = [vi \in VertexIds |-> InfluenceAt(vi, terrainLakes, terrainPuddles)]
    /\ expandMask' = InitialMask(influence', terrainPuddles)
    /\ relaxIt' = 0
    /\ terrainStage' = "dilate"
    /\ UNCHANGED <<terrainLakes, terrainPuddles, blendedY, vertices,
                   grassIndicesFinal, mudIndicesFinal, mergedIndices, groups>>
    /\ UNCHANGED nonTerrainVars

\* for (let pass = 0; pass < dilationPasses; pass++)
DilatePass ==
    /\ terrainStage = "dilate"
    /\ expandMask' = Dilate(expandMask)
    /\ IF relaxIt + 1 < DilationPasses(terrainPuddles)
       THEN relaxIt' = relaxIt + 1 /\ terrainStage' = "dilate"
       ELSE relaxIt' = 0 /\ terrainStage' = "stage1"
    /\ UNCHANGED <<terrainLakes, terrainPuddles, blendedY, vertices, heights, influence,
                   grassIndicesFinal, mudIndicesFinal, mergedIndices, groups>>
    /\ UNCHANGED nonTerrainVars

\* for (let it = 0; it < STAGE1_ITER; it++)
Stage1Iteration ==
    /\ terrainStage = "stage1"
    /\ heights' = Stage1Pass(heights, influence, expandMask, relaxIt,
                             Stage1Iter(terrainPuddles))
    /\ IF relaxIt + 1 < Stage1Iter(terrainPuddles)
       THEN relaxIt' = relaxIt + 1 /\ terrainStage' = "stage1"
       ELSE relaxIt' = 0 /\ terrainStage' = "stage2"
    /\ UNCHANGED <<terrainLakes, terrainPuddles, blendedY, vertices, influence, expandMask,
                   grassIndicesFinal, mudIndicesFinal, mergedIndices, groups>>
    /\ UNCHANGED nonTerrainVars

\* the radial targets and the blend toward them
Stage2 ==
    /\ terrainStage = "stage2"
    /\ heights' = Stage2Pass(heights, influence, expandMask, terrainLakes, terrainPuddles)
    /\ terrainStage' = "stage3"
    /\ UNCHANGED <<relaxIt, terrainLakes, terrainPuddles, blendedY, vertices, influence,
                   expandMask, grassIndicesFinal, mudIndicesFinal, mergedIndices, groups>>
    /\ UNCHANGED nonTerrainVars

\* for (let it = 0; it < STAGE3_ITER; it++)
Stage3Iteration ==
    /\ terrainStage = "stage3"
    /\ heights' = Stage3Pass(heights, influence, expandMask, relaxIt,
                             Stage3Iter(terrainPuddles))
    /\ IF relaxIt + 1 < Stage3Iter(terrainPuddles)
       THEN relaxIt' = relaxIt + 1 /\ terrainStage' = "stage3"
       ELSE relaxIt' = 0 /\ terrainStage' = "writeback"
    /\ UNCHANGED <<terrainLakes, terrainPuddles, blendedY, vertices, influence, expandMask,
                   grassIndicesFinal, mudIndicesFinal, mergedIndices, groups>>
    /\ UNCHANGED nonTerrainVars

\* vertices[i*3 + 1] = heights[i]
WriteBack ==
    /\ terrainStage = "writeback"
    /\ vertices' = heights
    /\ terrainStage' = "classify"
    /\ UNCHANGED <<relaxIt, terrainLakes, terrainPuddles, blendedY, heights, influence,
                   expandMask, grassIndicesFinal, mudIndicesFinal, mergedIndices, groups>>
    /\ UNCHANGED nonTerrainVars

\* the triangles are split between grass and mud, and the groups are added
\* to the merged geometry, or to the central one when there is no ground
\* cover
ClassifyTriangles ==
    /\ terrainStage = "classify"
    /\ grassIndicesFinal' = ClassifiedIndices(FALSE, terrainPuddles, 1)
    /\ mudIndicesFinal' = ClassifiedIndices(TRUE, terrainPuddles, 1)
    /\ IF HasGroundCover
       THEN /\ mergedIndices' = GroundCoverIndices
                                \o OffsetBy(grassIndicesFinal', GroundVertexCount)
                                \o OffsetBy(mudIndicesFinal', GroundVertexCount)
            /\ groups' = <<Group(0, Len(GroundCoverIndices), 0),
                           Group(Len(GroundCoverIndices), Len(grassIndicesFinal'), 1),
                           Group(MudStart(Len(GroundCoverIndices), Len(grassIndicesFinal')),
                                 Len(mudIndicesFinal'), 2)>>
       ELSE /\ mergedIndices' = grassIndicesFinal' \o mudIndicesFinal'
            /\ groups' = <<Group(0, Len(grassIndicesFinal'), 0),
                           Group(Len(grassIndicesFinal'), Len(mudIndicesFinal'), 1)>>
    /\ terrainStage' = "done"
    /\ UNCHANGED <<relaxIt, terrainLakes, terrainPuddles, blendedY, vertices, heights,
                   influence, expandMask>>
    /\ UNCHANGED nonTerrainVars

TerrainNext ==
    \/ BuildVertices
    \/ LoadHeights
    \/ DilatePass
    \/ Stage1Iteration
    \/ Stage2
    \/ Stage3Iteration
    \/ WriteBack
    \/ ClassifyTriangles

(***************************************************************************)
(* placeFoliageOnMesh: the face loop, the instance count and the instance  *)
(* loop.  Coordinates are integers; areas are hundredths, truncated; the   *)
(* points pushed onto pivotPoints are kept times four, the weights u, v    *)
(* and w being quarters.                                                   *)
(***************************************************************************)
\* the most faces of a target mesh
MaxFaces == 4

\* new THREE.Vector3(x, y, z)
Vec3(px, py, pz) == [x |-> px, y |-> py, z |-> pz]

\* geometry.attributes.position of the target meshes: level ground at
\* height 2 with one raised corner and one corner below the sea
FoliagePositions ==
    { <<Vec3(0, 2, 0), Vec3(4, 2, 0), Vec3(8, 2, 0), Vec3(0, 2, 4), Vec3(4, 2, 4),
        Vec3(8, 9, 4)>>,
      <<Vec3(0, 0, 0), Vec3(4, 0, 0), Vec3(8, 2, 0), Vec3(0, -1, 4), Vec3(4, 2, 4),
        Vec3(8, 2, 4)>> }

\* geometry.index.array: four faces wound upwards, with one face turned over
FoliageIndices ==
    { [i \in 1..(3 * n) |-> <<0, 3, 4, 0, 4, 1, 1, 4, 5, 1, 5, 2>>[((i - 1) % 12) + 1]] :
        n \in 2..MaxFaces }
    \cup { <<0, 3, 4, 0, 1, 4, 1, 4, 5>> }

\* outerBoundary and innerBoundary: the band between two polygons
OuterBoundaries == { <<Pt(-1, -1), Pt(9, -1), Pt(9, 5), Pt(-1, 5)>>,
                     <<Pt(-1, -1), Pt(6, -1), Pt(6, 5), Pt(-1, 5)>> }

InnerBoundaries == { <<Pt(-1, -1), Pt(2, -1), Pt(2, 5), Pt(-1, 5)>>,
                     <<Pt(20, 20), Pt(21, 20), Pt(21, 21)>> }

\* Math.cos(degToRad(maxSlopeDegrees)) in halves: 90 and 60 degrees
SlopeThresholds == {0, 1}

\* parseFloat(densityInput.value)
Densities == {0, 4, 9}

\* maxCountInput.value: empty, or a count
MaxCountInputs ==
    { [given |-> FALSE, count |-> 0] } \cup { [given |-> TRUE, count |-> n] : n \in {0, 1} }

\* Math.random() * totalArea, in quarters of totalArea
AreaDraws == 0..3

\* the pairs (u, v) Math.random() returns, in quarters
WeightDraws == { <<0, 0>>, <<3, 3>>, <<2, 1>>, <<3, 2>> }

\* vA.fromBufferAttribute(positions, iA)
FaceVertex(positions, indices, f, k) == positions[indices[3 * (f - 1) + k] + 1]

\* THREE.Triangle.getNormal before it is normalised: (c - b) x (a - b)
RawNormal(a, b, c) ==
    Vec3((c.y - b.y) * (a.z - b.z) - (c.z - b.z) * (a.y - b.y),
         (c.z - b.z) * (a.x - b.x) - (c.x - b.x) * (a.z - b.z),
         (c.x - b.x) * (a.y - b.y) - (c.y - b.y) * (a.x - b.x))

LengthSq(n) == n.x * n.x + n.y * n.y + n.z * n.z

\* faceNormal.y < slopeThreshold, the threshold in halves; the normal of a
\* degenerate face is the zero vector
TooSteep(a, b, c, halves) ==
    LET n == RawNormal(a, b, c)
    IN  IF LengthSq(n) = 0 THEN 0 < halves
        ELSE IF halves = 0 THEN n.y < 0
        ELSE n.y < 0 \/ 4 * n.y * n.y < halves * halves * LengthSq(n)

\* vA.y <= 0 && vB.y <= 0 && vC.y <= 0
Submerged(a, b, c) == a.y <= 0 /\ b.y <= 0 /\ c.y <= 0

\* centroid2D, times three
FaceCentroid3(a, b, c) == Pt(a.x + b.x + c.x, a.z + b.z + c.z)

\* a face that is rejected although it lies inside the inner boundary
InsideInnerNever(a, b, c, inner) == FALSE

\* this.isPointInPolygon(centroid2D, innerBoundary)
InsideInner(a, b, c, inner) == IsPointInPolygon(FaceCentroid3(a, b, c), Times3(inner))

\* !this.isPointInPolygon(centroid2D, outerBoundary)
OutsideOuter(a, b, c, outer) == ~IsPointInPolygon(FaceCentroid3(a, b, c), Times3(outer))

\* the face passes the four tests of the loop
FaceAccepted(a, b, c, halves, outer, inner) ==
    /\ ~TooSteep(a, b, c, halves)
    /\ ~Submerged(a, b, c)
    /\ ~OutsideOuter(a, b, c, outer)
    /\ ~InsideInner(a, b, c, inner)

\* triangle.set(vA, vB, vC).getArea(), in hundredths
FaceArea(a, b, c) == Isqrt(LengthSq(RawNormal(a, b, c)) * 2500)

\* Math.floor(totalArea / 100 * density)
RawInstanceCount(area, density) == (area * density) \div 10000

\* a count the maximum does not clamp
ClampIgnored(n, maxCount) == n

\* numInstances = Math.min(numInstances, maxCount) when the input holds a
\* count that is not negative
ClampToMax(n, maxCount) ==
    IF maxCount.given /\ maxCount.count >= 0 THEN Min2(n, maxCount.count) ELSE n

\* cdf.find(item => item.cumulativeArea >= randomArea): the index of the
\* first face whose cumulative area reaches r, or 0
RECURSIVE FindCdf(_, _, _, _)
FindCdf(faces, r, i, cumulativeArea) ==
    IF i > Len(faces) THEN 0
    ELSE IF cumulativeArea + faces[i].area >= r THEN i
    ELSE FindCdf(faces, r, i + 1, cumulativeArea + faces[i].area)

\* if (u + v > 1) { u = 1 - u; v = 1 - v; } and w = 1 - u - v, in quarters
Weights(uv) ==
    LET u == IF uv[1] + uv[2] > 4 THEN 4 - uv[1] ELSE uv[1]
        v == IF uv[1] + uv[2] > 4 THEN 4 - uv[2] ELSE uv[2]
    IN  <<u, v, 4 - u - v>>

\* point = u * vA + v * vB + w * vC, times four
WeightedPoint(face, w) ==
    Vec3(w[1] * face.vA.x + w[2] * face.vB.x + w[3] * face.vC.x,
         w[1] * face.vA.y + w[2] * face.vB.y + w[3] * face.vC.y,
         w[1] * face.vA.z + w[2] * face.vB.z + w[3] * face.vC.z)

FoliageIdle ==
    /\ foliagePhase = "idle"
    /\ foliageMesh = << >>
    /\ foliageOptions = << >>
    /\ faceIx = 0
    /\ validFaces = << >>
    /\ totalArea = 0
    /\ numInstances = 0
    /\ instanceIx = 0
    /\ pivotPoints = << >>

\* placeFoliageOnMesh is entered with an indexed target mesh
FoliageEntry ==
    /\ foliagePhase = "faces"
    /\ foliageMesh \in [positions : FoliagePositions, indices : FoliageIndices]
    /\ foliageOptions \in [maxSlope : SlopeThresholds, density : Densities,
                           maxCount : MaxCountInputs,
                           outerBoundary : OuterBoundaries, innerBoundary : InnerBoundaries]
    /\ faceIx = 0
    /\ validFaces = << >>
    /\ totalArea = 0
    /\ numInstances = 0
    /\ instanceIx = 0
    /\ pivotPoints = << >>

\* for (let i = 0; i < indices.length; i += 3): one face
ClassifyFace ==
    /\ foliagePhase = "faces"
    /\ faceIx < Len(foliageMesh.indices) \div 3
    /\ LET a == FaceVertex(foliageMesh.positions, foliageMesh.indices, faceIx + 1, 1)
           b == FaceVertex(foliageMesh.positions, foliageMesh.indices, faceIx + 1, 2)
           c == FaceVertex(foliageMesh.positions, foliageMesh.indices, faceIx + 1, 3)
       IN  IF FaceAccepted(a, b, c, foliageOptions.maxSlope,
                           foliageOptions.outerBoundary, foliageOptions.innerBoundary)
           THEN /\ validFaces' = Append(validFaces,
                                        [vA |-> a, vB |-> b, vC |-> c, area |-> FaceArea(a, b, c)])
                /\ totalArea' = totalArea + FaceArea(a, b, c)
           ELSE UNCHANGED <<validFaces, totalArea>>
    /\ faceIx' = faceIx + 1
    /\ UNCHANGED <<foliagePhase, foliageMesh, foliageOptions, numInstances, instanceIx,
                   pivotPoints>>
    /\ UNCHANGED nonFoliageVars

\* numInstances, clamped; nothing is placed when it is 0 or no face is valid
CountInstances ==
    /\ foliagePhase = "faces"
    /\ faceIx = Len(foliageMesh.indices) \div 3
    /\ numInstances' = ClampToMax(RawInstanceCount(totalArea, foliageOptions.density),
                                  foliageOptions.maxCount)
    /\ foliagePhase' = IF numInstances' = 0 \/ validFaces = << >> THEN "done" ELSE "instances"
    /\ UNCHANGED <<foliageMesh, foliageOptions, faceIx, validFaces, totalArea, instanceIx,
                   pivotPoints>>
    /\ UNCHANGED nonFoliageVars

\* for (let i = 0; i < numInstances; i++): one instance
PlaceInstance ==
    /\ foliagePhase = "instances"
    /\ instanceIx < numInstances
    /\ \E r \in AreaDraws, uv \in WeightDraws :
           LET found == FindCdf(validFaces, (r * totalArea) \div 4, 1, 0)
           IN  pivotPoints' = IF found = 0 THEN pivotPoints
                              ELSE Append(pivotPoints,
                                          WeightedPoint(validFaces[found], Weights(uv)))
    /\ instanceIx' = instanceIx + 1
    /\ UNCHANGED <<foliagePhase, foliageMesh, foliageOptions, faceIx, validFaces, totalArea,
                   numInstances>>
    /\ UNCHANGED nonFoliageVars

\* the instance loop is over
FinishFoliage ==
    /\ foliagePhase = "instances"
    /\ instanceIx >= numInstances
    /\ foliagePhase' = "done"
    /\ UNCHANGED <<foliageMesh, foliageOptions, faceIx, validFaces, totalArea, numInstances,
                   instanceIx, pivotPoints>>
    /\ UNCHANGED nonFoliageVars

FoliageNext ==
    \/ ClassifyFace
    \/ CountInstances
    \/ PlaceInstance
    \/ FinishFoliage

(***************************************************************************)
(* The node sampling loop of generateGraphPaths, from the check of         *)
(* numPoints to the call of delaunayTriangulation.  It writes nodes and    *)
(* hides the loading overlay when it gives up.                             *)
(***************************************************************************)
\* numPoints of a call: below 3, or up to the most nodes of the model
PointCounts == 2..MaxNodes

\* the factor of maxAttempts
AttemptsPerPoint == 100

\* a cap that allows one attempt more
MaxAttemptsPlusOne(n) == n * AttemptsPerPoint + 1

\* maxAttempts = numPoints * 100
MaxAttempts(n) == n * AttemptsPerPoint

\* the points (randomX, randomZ) of an attempt: on the surface, in the
\* middle of the node area, outside the boundary, and inside the boundary
\* where the ray meets no surface
SampleDraws == { Pt(0, 0), Pt(4, 2), Pt(2, 2), Pt(-3, 0), Pt(5, 5) }

\* raycaster.intersectObject(this.islandSurface, true).length > 0
RayHits(p) == p.x <= 4 /\ p.z <= 4

\* the tests of one attempt
DrawAccepted(p, boundary, contours) ==
    /\ IsPointInPolygon(p, boundary)
    /\ ~IsInLake(p, contours)
    /\ RayHits(p)

SamplingIdle ==
    /\ numPoints = 0
    /\ attempts = 0
    /\ pathGroup = << >>

\* generateGraphPaths after showLoading(true) and this.pathGroup.clear()
SamplingEntry ==
    /\ pathPhase = "entered"
    /\ lakeContours \in LakeScenes
    /\ numPoints \in PointCounts
    /\ attempts = 0
    /\ pathGroup = << >>
    /\ nodes = << >>
    /\ triangles = << >>
    /\ pointIx = 0
    /\ allEdges = << >>
    /\ parent = << >>
    /\ edgeIx = 0
    /\ mstEdges = << >>
    /\ remainingEdges = << >>
    /\ loopPercentage = 0
    /\ finalEdges = << >>

\* if (numPoints < 3) { this.showLoading(false); return; }
CheckNumPoints ==
    /\ pathPhase = "entered"
    /\ IF numPoints < 3
       THEN pathPhase' = "aborted" /\ loadingOverlay' = FALSE
       ELSE pathPhase' = "sampling" /\ UNCHANGED loadingOverlay
    /\ UNCHANGED <<lakeContours, nodes, triangles, pointIx, allEdges, parent, edgeIx,
                   mstEdges, remainingEdges, loopPercentage, finalEdges>>
    /\ UNCHANGED <<rockModels, loads, lakes, mudPuddles, currentInnerFoliageBoundary,
                   islandSurface, generateButtonDisabled, generatePathButtonDisabled,
                   timers, lastAttempts>>
    /\ UNCHANGED <<terrainVars, foliageVars, samplingVars, featureVars, ribbonVars, noiseVars, smoothVars, baseVars>>

\* while (nodes.length < numPoints && attempts < maxAttempts): one attempt
SampleAttempt ==
    /\ pathPhase = "sampling"
    /\ Len(nodes) < numPoints /\ attempts < MaxAttempts(numPoints)
    /\ \E p \in SampleDraws :
           nodes' = IF DrawAccepted(p, currentInnerFoliageBoundary, lakeContours)
                    THEN Append(nodes, Node(p.x, p.z)) ELSE nodes
    /\ attempts' = attempts + 1
    /\ UNCHANGED <<pathPhase, lakeContours, triangles, pointIx, allEdges, parent, edgeIx,
                   mstEdges, remainingEdges, loopPercentage, finalEdges>>
    /\ UNCHANGED <<numPoints, pathGroup>>
    /\ UNCHANGED <<uiVars, terrainVars, foliageVars, featureVars, ribbonVars, noiseVars, smoothVars, baseVars>>

\* the loop is left: with fewer than 3 nodes the call hides the overlay and
\* returns, otherwise it calls delaunayTriangulation
EndSampling ==
    /\ pathPhase = "sampling"
    /\ ~(Len(nodes) < numPoints /\ attempts < MaxAttempts(numPoints))
    /\ IF Len(nodes) < 3
       THEN /\ pathPhase' = "aborted"
            /\ loadingOverlay' = FALSE
            /\ UNCHANGED triangles
       ELSE /\ pathPhase' = "triangulate"
            /\ triangles' = <<Triangle(-1, -2, -3)>>
            /\ UNCHANGED loadingOverlay
    /\ UNCHANGED <<lakeContours, nodes, pointIx, allEdges, parent, edgeIx,
                   mstEdges, remainingEdges, loopPercentage, finalEdges>>
    /\ UNCHANGED <<rockModels, loads, lakes, mudPuddles, currentInnerFoliageBoundary,
                   islandSurface, generateButtonDisabled, generatePathButtonDisabled,
                   timers, lastAttempts>>
    /\ UNCHANGED <<terrainVars, foliageVars, samplingVars, featureVars, ribbonVars, noiseVars, smoothVars, baseVars>>

SamplingNext ==
    \/ CheckNumPoints
    \/ SampleAttempt
    \/ EndSampling

(***************************************************************************)
(* The feature block of generateIsland with the numbers it computes: the   *)
(* invalidation of a regeneration, placement, and the contour, rim height  *)
(* and water level of every feature, between the handlers that add and     *)
(* remove features.  Heights and depths are tenths.                        *)
(***************************************************************************)
\* a field that is undefined, and a field that holds v
Undefined == [defined |-> FALSE]
Defined(v) == [defined |-> TRUE, value |-> v]

\* parseFloat(this.lakeDepthInput.value)
LakeDepths == {10, 25}

\* the centers placement can give a feature
FeatureCenters == { Pt(2, 2), Pt(6, 2) }

\* getBaseTerrainHeightAt of a pass: level ground and two slopes
BaseTerrains == {"level", "east", "north"}

\* getBaseTerrainHeightAt(p)
GetBaseTerrainHeightAt(terrain, p) ==
    IF terrain = "level" THEN 100
    ELSE IF terrain = "east" THEN 100 + 3 * p.x
    ELSE 120 - 2 * p.z

\* the lake pushed by handleAddLake
RequestedLake(fid, d) ==
    [type |-> "lake", id |-> fid, baseRadius |-> 1, depth |-> d, center |-> Undefined,
     contourPoints |-> Undefined, avgRimHeight |-> Undefined, waterLevel |-> Undefined]

\* the mud puddle pushed by handleAddMudPuddle
RequestedPuddle(fid) ==
    [type |-> "mud_puddle", id |-> fid, baseRadius |-> 1, depth |-> 5, center |-> Undefined,
     contourPoints |-> Undefined, avgRimHeight |-> Undefined, waterLevel |-> Undefined]

\* f.contourPoints = undefined; f.avgRimHeight = undefined; and for a lake
\* f.waterLevel = undefined
ClearGenerated(f) ==
    [f EXCEPT !.contourPoints = Undefined, !.avgRimHeight = Undefined,
              !.waterLevel = Undefined]

\* a contour of no points
ContourOfNoPoints(c, r) == << >>

\* the contour around a center, at the four points of the compass
ContourAround(c, r) == <<Pt(c.x + r, c.z), Pt(c.x, c.z + r), Pt(c.x - r, c.z), Pt(c.x, c.z - r)>>

\* avgContourHeight: the sum over the contour, and after the loop the
\* sum divided by count
RECURSIVE ContourHeightSum(_, _, _)
ContourHeightSum(terrain, contour, i) ==
    IF i > Len(contour) THEN 0
    ELSE GetBaseTerrainHeightAt(terrain, contour[i]) + ContourHeightSum(terrain, contour, i + 1)

AvgContourHeight(terrain, contour) == ContourHeightSum(terrain, contour, 1) \div Len(contour)

\* a water level at the rim
WaterLevelAtRim(avgContourHeight, depth) == avgContourHeight

\* avgContourHeight - (feature.depth * 0.2)
WaterLevel(avgContourHeight, depth) == avgContourHeight - (depth * 2) \div 10

\* the body of the forEach of Part 2 for one feature
ResolveContour(f, terrain) ==
    IF ~f.center.defined \/ f.contourPoints.defined THEN f
    ELSE LET contour == ContourAround(f.center.value, f.baseRadius)
             avg == AvgContourHeight(terrain, contour)
         IN  IF Len(contour) > 0
             THEN [f EXCEPT !.contourPoints = Defined(contour),
                            !.avgRimHeight = Defined(avg),
                            !.waterLevel = IF f.type = "lake"
                                           THEN Defined(WaterLevel(avg, f.depth))
                                           ELSE Undefined]
             ELSE [f EXCEPT !.contourPoints = Defined(contour)]

FeaturesIdle ==
    /\ featurePhase = "idle"
    /\ allFeatures = << >>
    /\ featureIx = 0
    /\ passIsRegeneration = FALSE
    /\ baseTerrain = "level"

\* no pass is running and no feature was requested yet
FeaturesEntry ==
    /\ featurePhase = "between"
    /\ allFeatures = << >>
    /\ featureIx = 0
    /\ passIsRegeneration = FALSE
    /\ baseTerrain = "level"

LakesOf(fs) == SelectSeq(fs, LAMBDA f : f.type = "lake")
PuddlesOf(fs) == SelectSeq(fs, LAMBDA f : f.type = "mud_puddle")

\* this.lakes.push({...}) between two passes
RequestLake ==
    /\ featurePhase = "between"
    /\ Len(LakesOf(allFeatures)) < MaxLakes
    /\ \E d \in LakeDepths :
           allFeatures' = LakesOf(allFeatures)
                          \o <<RequestedLake(Len(allFeatures) + 1, d)>>
                          \o PuddlesOf(allFeatures)
    /\ UNCHANGED <<featurePhase, featureIx, passIsRegeneration, baseTerrain>>
    /\ UNCHANGED nonFeatureVars

\* this.mudPuddles.push({...}) between two passes
RequestPuddle ==
    /\ featurePhase = "between"
    /\ Len(PuddlesOf(allFeatures)) < MaxPuddles
    /\ allFeatures' = Append(allFeatures, RequestedPuddle(Len(allFeatures) + 1))
    /\ UNCHANGED <<featurePhase, featureIx, passIsRegeneration, baseTerrain>>
    /\ UNCHANGED nonFeatureVars

\* the pass reaches allFeatures = [...] with the terrain of this pass; a
\* full generation has emptied the lists
BeginFeatureBlock ==
    /\ featurePhase = "between"
    /\ passIsRegeneration' \in BOOLEAN
    /\ baseTerrain' \in BaseTerrains
    /\ allFeatures' = IF passIsRegeneration' THEN allFeatures ELSE << >>
    /\ featurePhase' = "invalidate"
    /\ featureIx' = 0
    /\ UNCHANGED nonFeatureVars

\* if (isRegeneration) allFeatures.forEach(f => { ... = undefined })
InvalidateFeatures ==
    /\ featurePhase = "invalidate"
    /\ allFeatures' = IF passIsRegeneration
                      THEN [i \in 1..Len(allFeatures) |-> ClearGenerated(allFeatures[i])]
                      ELSE allFeatures
    /\ \/ featurePhase' = "place"
       \/ featurePhase' = "between"   \* currentInnerFoliageBoundary.length <= 2
    /\ featureIx' = 0
    /\ UNCHANGED <<passIsRegeneration, baseTerrain>>
    /\ UNCHANGED nonFeatureVars

\* Part 1, one feature: a feature with a center is skipped, another gets a
\* center or none
PlaceOneFeature ==
    /\ featurePhase = "place"
    /\ featureIx < Len(allFeatures)
    /\ LET f == allFeatures[featureIx + 1]
       IN  IF f.center.defined THEN UNCHANGED allFeatures
           ELSE \/ UNCHANGED allFeatures
                \/ \E c \in FeatureCenters :
                       /\ \A k \in 1..Len(allFeatures) :
                              allFeatures[k].center # Defined(c)
                       /\ allFeatures' = [allFeatures EXCEPT ![featureIx + 1].center = Defined(c)]
    /\ featureIx' = featureIx + 1
    /\ UNCHANGED <<featurePhase, passIsRegeneration, baseTerrain>>
    /\ UNCHANGED nonFeatureVars

\* Part 1 is over
EndPlacement ==
    /\ featurePhase = "place"
    /\ featureIx = Len(allFeatures)
    /\ featurePhase' = "contour"
    /\ featureIx' = 0
    /\ UNCHANGED <<allFeatures, passIsRegeneration, baseTerrain>>
    /\ UNCHANGED nonFeatureVars

\* Part 2, one feature
ContourOneFeature ==
    /\ featurePhase = "contour"
    /\ featureIx < Len(allFeatures)
    /\ allFeatures' = [allFeatures EXCEPT
                          ![featureIx + 1] = ResolveContour(allFeatures[featureIx + 1], baseTerrain)]
    /\ featureIx' = featureIx + 1
    /\ UNCHANGED <<featurePhase, passIsRegeneration, baseTerrain>>
    /\ UNCHANGED nonFeatureVars

\* Part 2 is over, and with it the block
EndFeatureBlock ==
    /\ featurePhase = "contour"
    /\ featureIx = Len(allFeatures)
    /\ featurePhase' = "between"
    /\ featureIx' = 0
    /\ UNCHANGED <<allFeatures, passIsRegeneration, baseTerrain>>
    /\ UNCHANGED nonFeatureVars

FeaturesNext ==
    \/ RequestLake
    \/ RequestPuddle
    \/ BeginFeatureBlock
    \/ InvalidateFeatures
    \/ PlaceOneFeature
    \/ EndPlacement
    \/ ContourOneFeature
    \/ EndFeatureBlock

(***************************************************************************)
(* createPathRibbon, and the statement of generateGraphPaths that adds the *)
(* mesh it returns to pathGroup.  Positions are thousandths.               *)
(***************************************************************************)
\* the longest path that is drawn
MaxPathPoints == 4

\* the points a path runs through
PathPoints == { Vec3(0, 0, 0), Vec3(2, 0, 0), Vec3(2, 1, 2) }

\* the surface normals smoothAndProjectPath reports
SurfaceNormals == { Vec3(0, 1, 0), Vec3(1, 0, 0) }

\* parseFloat(this.pathWidthInput.value)
PathWidths == {2, 4}

\* yOffset = 0.05
YOffset == 50

\* the paths and their normals: as many normals as points
PathInputs ==
    UNION { [1..n -> PathPoints] \X [1..n -> SurfaceNormals] : n \in 0..MaxPathPoints }

SubVectors(a, b) == Vec3(a.x - b.x, a.y - b.y, a.z - b.z)

CrossVectors(a, b) ==
    Vec3(a.y * b.z - a.z * b.y, a.z * b.x - a.x * b.z, a.x * b.y - a.y * b.x)

\* Vector3.normalize() of a vector in thousandths; the zero vector stays zero
Normalize(v) ==
    LET len == Isqrt(LengthSq(v))
    IN  IF len = 0 THEN Vec3(0, 0, 0)
        ELSE Vec3((v.x * 1000) \div len, (v.y * 1000) \div len, (v.z * 1000) \div len)

\* direction: to the next point, and at the last point from the one before
RibbonDirection(path, k) ==
    LET d == IF k < Len(path) - 1 THEN SubVectors(path[k + 2], path[k + 1])
             ELSE SubVectors(path[k + 1], path[k])
    IN  Normalize(Vec3(d.x * 1000, d.y * 1000, d.z * 1000))

\* right = direction x surfaceNormal, normalised
RibbonRight(path, normals, k) ==
    Normalize(CrossVectors(RibbonDirection(path, k), normals[k + 1]))

\* the six numbers pushed for point k: leftPoint and rightPoint, raised by
\* yOffset
RibbonPair(path, normals, width, k) ==
    LET point == path[k + 1]
        right == RibbonRight(path, normals, k)
        half == width \div 2
    IN  <<point.x * 1000 - right.x * half, point.y * 1000 - right.y * half + YOffset,
          point.z * 1000 - right.z * half,
          point.x * 1000 + right.x * half, point.y * 1000 + right.y * half + YOffset,
          point.z * 1000 + right.z * half>>

\* indices.push(tl, bl, tr); indices.push(tr, bl, br)
RibbonQuad(k) == <<k * 2, k * 2 + 2, k * 2 + 1, k * 2 + 1, k * 2 + 2, k * 2 + 3>>

\* a loop over the quads that runs to the last point
QuadCountToLastPoint(n) == n

\* k < path3D.length - 1
QuadCount(n) == n - 1

\* return null, and new THREE.Mesh(geometry, material)
NullMesh == [isMesh |-> FALSE]
RibbonMesh(position, index) == [isMesh |-> TRUE, position |-> position, index |-> index]

RibbonIdle ==
    /\ ribbonPhase = "idle"
    /\ path3D = << >>
    /\ pathNormals = << >>
    /\ pathWidth = 0
    /\ ribbonK = 0
    /\ ribbonVertices = << >>
    /\ ribbonIndices = << >>
    /\ pathMesh = NullMesh

\* createPathRibbon is entered with a path, its normals and a width
RibbonEntry ==
    /\ ribbonPhase = "entry"
    /\ \E input \in PathInputs : path3D = input[1] /\ pathNormals = input[2]
    /\ pathWidth \in PathWidths
    /\ ribbonK = 0
    /\ ribbonVertices = << >>
    /\ ribbonIndices = << >>
    /\ pathMesh = NullMesh

\* if (path3D.length < 2) return null
CheckPathLength ==
    /\ ribbonPhase = "entry"
    /\ ribbonPhase' = IF Len(path3D) < 2 THEN "returned" ELSE "vertices"
    /\ UNCHANGED <<path3D, pathNormals, pathWidth, ribbonK, ribbonVertices, ribbonIndices,
                   pathMesh, pathGroup>>
    /\ UNCHANGED nonRibbonVars

\* one turn of the first loop
PushVertexPair ==
    /\ ribbonPhase = "vertices"
    /\ ribbonK < Len(path3D)
    /\ ribbonVertices' = ribbonVertices \o RibbonPair(path3D, pathNormals, pathWidth, ribbonK)
    /\ ribbonK' = ribbonK + 1
    /\ UNCHANGED <<ribbonPhase, path3D, pathNormals, pathWidth, ribbonIndices, pathMesh,
                   pathGroup>>
    /\ UNCHANGED nonRibbonVars

\* the first loop is over
EndVertexLoop ==
    /\ ribbonPhase = "vertices"
    /\ ribbonK = Len(path3D)
    /\ ribbonPhase' = "indices"
    /\ ribbonK' = 0
    /\ UNCHANGED <<path3D, pathNormals, pathWidth, ribbonVertices, ribbonIndices, pathMesh,
                   pathGroup>>
    /\ UNCHANGED nonRibbonVars

\* one turn of the second loop
PushQuad ==
    /\ ribbonPhase = "indices"
    /\ ribbonK < QuadCount(Len(path3D))
    /\ ribbonIndices' = ribbonIndices \o RibbonQuad(ribbonK)
    /\ ribbonK' = ribbonK + 1
    /\ UNCHANGED <<ribbonPhase, path3D, pathNormals, pathWidth, ribbonVertices, pathMesh,
                   pathGroup>>
    /\ UNCHANGED nonRibbonVars

\* if (vertices.length > 0 && indices.length > 0) return pathMesh;
\* return null
ReturnMesh ==
    /\ ribbonPhase = "indices"
    /\ ribbonK >= QuadCount(Len(path3D))
    /\ pathMesh' = IF Len(ribbonVertices) > 0 /\ Len(ribbonIndices) > 0
                   THEN RibbonMesh(ribbonVertices, ribbonIndices)
                   ELSE NullMesh
    /\ ribbonPhase' = "returned"
    /\ UNCHANGED <<path3D, pathNormals, pathWidth, ribbonK, ribbonVertices, ribbonIndices,
                   pathGroup>>
    /\ UNCHANGED nonRibbonVars

\* if (pathMesh) this.pathGroup.add(pathMesh)
AddToPathGroup ==
    /\ ribbonPhase = "returned"
    /\ pathGroup' = IF pathMesh.isMesh THEN Append(pathGroup, pathMesh) ELSE pathGroup
    /\ ribbonPhase' = "done"
    /\ UNCHANGED <<path3D, pathNormals, pathWidth, ribbonK, ribbonVertices, ribbonIndices,
                   pathMesh>>
    /\ UNCHANGED nonRibbonVars

RibbonNext ==
    \/ CheckPathLength
    \/ PushVertexPair
    \/ EndVertexLoop
    \/ PushQuad
    \/ ReturnMesh
    \/ AddToPathGroup

(***************************************************************************)
(* generateNoise.  Angles are eighths of a turn, so the counts are the     *)
(* divisors of 8; amplitudes and values are thousandths.                   *)
(***************************************************************************)
\* the arguments numPoints and phaseOffset
NoiseCounts == {1, 2, 4, 8}
PhaseOffsets == {0, 3}

\* Math.random() * 2 * Math.PI
RandomPhases == 0..7

Harmonic(f, a) == [freq |-> f, amp |-> a]

\* the harmonics used when customHarmonics is not given
DefaultHarmonics == <<Harmonic(1, 1000), Harmonic(2, 500), Harmonic(5, 250), Harmonic(9, 125)>>

\* the harmonics of a call: the defaults, one wave of frequency 6, and a
\* pair whose second amplitude is negative
HarmonicLists == { DefaultHarmonics, <<Harmonic(6, 1000)>>,
                   <<Harmonic(1, 1000), Harmonic(2, -500)>> }

\* Math.sin of an angle in eighths of a turn
Sin8(a) == <<0, 707, 1000, 707, 0, -707, -1000, -707>>[(a % 8) + 1]

\* a quotient rounded towards zero
Quotient(a, b) == IF a >= 0 THEN a \div b ELSE -((-a) \div b)

\* a normalisation by the first amplitude alone
FirstAmplitude(hs) == hs[1].amp

\* harmonics.forEach(h => totalAmplitude += h.amp)
RECURSIVE TotalAmplitude(_)
TotalAmplitude(hs) == IF hs = << >> THEN 0 ELSE Head(hs).amp + TotalAmplitude(Tail(hs))

\* Math.sin(angle * harmonic.freq + phase) * harmonic.amp at sample i, with
\* angle = (i / numPoints) * 2 * Math.PI
HarmonicAt(h, phase, i, count) ==
    Quotient(Sin8(((8 * i) \div count) * h.freq + phase) * h.amp, 1000)

NoiseIdle ==
    /\ noisePhase = "idle"
    /\ noiseCount = 0
    /\ phaseOffset = 0
    /\ harmonics = << >>
    /\ harmonicIx = 0
    /\ totalAmplitude = 0
    /\ noiseValues = << >>

\* generateNoise after noiseValues is filled with 0 and totalAmplitude summed
NoiseEntry ==
    /\ noisePhase = "harmonics"
    /\ noiseCount \in NoiseCounts
    /\ phaseOffset \in PhaseOffsets
    /\ harmonics \in HarmonicLists
    /\ harmonicIx = 0
    /\ totalAmplitude = TotalAmplitude(harmonics)
    /\ noiseValues = [i \in 1..noiseCount |-> 0]

\* one turn of for (const harmonic of harmonics)
AddHarmonic ==
    /\ noisePhase = "harmonics"
    /\ harmonicIx < Len(harmonics)
    /\ \E random \in RandomPhases :
           noiseValues' = [i \in 1..noiseCount |->
               noiseValues[i]
               + HarmonicAt(harmonics[harmonicIx + 1], phaseOffset + random, i - 1, noiseCount)]
    /\ harmonicIx' = harmonicIx + 1
    /\ UNCHANGED <<noisePhase, noiseCount, phaseOffset, harmonics, totalAmplitude>>
    /\ UNCHANGED nonNoiseVars

\* noiseValues[i] /= totalAmplitude for every i; return noiseValues
NormalizeNoise ==
    /\ noisePhase = "harmonics"
    /\ harmonicIx = Len(harmonics)
    /\ noiseValues' = [i \in 1..noiseCount |-> Quotient(noiseValues[i] * 1000, totalAmplitude)]
    /\ noisePhase' = "returned"
    /\ UNCHANGED <<noiseCount, phaseOffset, harmonics, harmonicIx, totalAmplitude>>
    /\ UNCHANGED nonNoiseVars

NoiseNext ==
    \/ AddHarmonic
    \/ NormalizeNoise

(***************************************************************************)
(* smoothAndProjectPath as generateGraphPaths calls it, with the spline of *)
(* THREE.CatmullRomCurve3 and projectPathToSurface.  Sampled and projected *)
(* positions are thousandths.                                              *)
(***************************************************************************)
\* the longest raw path that is smoothed
MaxRawPoints == 4

\* the points createSurfacePath reports, on a surface at height 1
RawPoints == { Vec3(0, 1, 0), Vec3(4, 1, 0), Vec3(2, 1, 4) }

\* the raw paths
RawPaths == UNION { [1..n -> RawPoints] : n \in 0..MaxRawPoints }

\* divisions = rawPath.length * 2
DivisionsFor(n) == n * 2

\* the surface a ray from above meets: the square from (0, 0) to (4, 4),
\* at height 1
SurfaceY == 1000
RayMeetsSurface(p) == p.x \in 0..4000 /\ p.z \in 0..4000

AddVectors(a, b) == Vec3(a.x + b.x, a.y + b.y, a.z + b.z)

\* CubicPoly.initCatmullRom(x0, x1, x2, x3, 0.5) and calc(weight), the
\* weight being wn / d; the result in thousandths
CatmullRom(x0, x1, x2, x3, wn, d) ==
    LET t0 == x2 - x0      \* twice 0.5 * (x2 - x0)
        t1 == x3 - x1
        c0 == 2 * x1
        c1 == t0
        c2 == 6 * x2 - 6 * x1 - 2 * t0 - t1
        c3 == 4 * x1 - 4 * x2 + t0 + t1
    IN  Quotient((c0 * d * d * d + c1 * wn * d * d + c2 * wn * wn * d + c3 * wn * wn * wn)
                     * 1000,
                 2 * d * d * d)

\* CatmullRomCurve3.getPoint(i / d) of an open curve through points
GetPoint(points, i, d) ==
    LET l == Len(points)
        pn == (l - 1) * i
        atEnd == pn % d = 0 /\ pn \div d = l - 1
        intPoint == IF atEnd THEN l - 2 ELSE pn \div d
        wn == IF atEnd THEN d ELSE pn % d
        p0 == IF intPoint > 0 THEN points[intPoint]
              ELSE AddVectors(SubVectors(points[1], points[2]), points[1])
        p1 == points[intPoint + 1]
        p2 == points[intPoint + 2]
        p3 == IF intPoint + 2 < l THEN points[intPoint + 3]
              ELSE AddVectors(SubVectors(points[l], points[l - 1]), points[l])
    IN  Vec3(CatmullRom(p0.x, p1.x, p2.x, p3.x, wn, d),
             CatmullRom(p0.y, p1.y, p2.y, p3.y, wn, d),
             CatmullRom(p0.z, p1.z, p2.z, p3.z, wn, d))

\* a sampling loop that stops before the end of the curve
LastSampleBeforeEnd(d) == d - 1

\* for (let i = 0; i <= divisions; i++)
LastSample(d) == d

\* projectPathToSurface: a point the ray misses is left out
RECURSIVE ProjectPathToSurface(_)
ProjectPathToSurface(points) ==
    IF points = << >> THEN [path |-> << >>, normals |-> << >>]
    ELSE LET rest == ProjectPathToSurface(Tail(points))
             p == Head(points)
         IN  IF RayMeetsSurface(p)
             THEN [path |-> <<Vec3(p.x, SurfaceY, p.z)>> \o rest.path,
                   normals |-> <<Vec3(0, 1, 0)>> \o rest.normals]
             ELSE rest

\* the raw points as vectors in thousandths
InThousandths(points) ==
    [k \in 1..Len(points) |-> Vec3(points[k].x * 1000, points[k].y * 1000, points[k].z * 1000)]

NothingProjected == [path |-> << >>, normals |-> << >>]

SmoothIdle ==
    /\ smoothPhase = "idle"
    /\ rawPath = << >>
    /\ divisions = 0
    /\ sampleIx = 0
    /\ smoothedPoints = << >>
    /\ projected = NothingProjected

\* smoothAndProjectPath is entered with a raw path and twice its length
SmoothEntry ==
    /\ smoothPhase = "entry"
    /\ rawPath \in RawPaths
    /\ divisions = DivisionsFor(Len(rawPath))
    /\ sampleIx = 0
    /\ smoothedPoints = << >>
    /\ projected = NothingProjected

\* if (rawPath.length < 3) return this.projectPathToSurface(rawPath, ...)
ProjectRawPath ==
    /\ smoothPhase = "entry"
    /\ Len(rawPath) < 3
    /\ projected' = ProjectPathToSurface(InThousandths(rawPath))
    /\ smoothPhase' = "returned"
    /\ UNCHANGED <<rawPath, divisions, sampleIx, smoothedPoints>>
    /\ UNCHANGED nonSmoothVars

\* new THREE.CatmullRomCurve3(rawPath, false, 'catmullrom', 0.5)
FitCurve ==
    /\ smoothPhase = "entry"
    /\ Len(rawPath) >= 3
    /\ smoothPhase' = "sampling"
    /\ UNCHANGED <<rawPath, divisions, sampleIx, smoothedPoints, projected>>
    /\ UNCHANGED nonSmoothVars

\* smoothedPoints.push(curve.getPoint(i / divisions))
SampleCurve ==
    /\ smoothPhase = "sampling"
    /\ sampleIx <= LastSample(divisions)
    /\ smoothedPoints' = Append(smoothedPoints, GetPoint(rawPath, sampleIx, divisions))
    /\ sampleIx' = sampleIx + 1
    /\ UNCHANGED <<smoothPhase, rawPath, divisions, projected>>
    /\ UNCHANGED nonSmoothVars

\* return this.projectPathToSurface(smoothedPoints, ...)
ProjectSmoothedPath ==
    /\ smoothPhase = "sampling"
    /\ sampleIx > LastSample(divisions)
    /\ projected' = ProjectPathToSurface(smoothedPoints)
    /\ smoothPhase' = "returned"
    /\ UNCHANGED <<rawPath, divisions, sampleIx, smoothedPoints>>
    /\ UNCHANGED nonSmoothVars

SmoothNext ==
    \/ ProjectRawPath
    \/ FitCurve
    \/ SampleCurve
    \/ ProjectSmoothedPath

\* every routine that is modelled on its own is at rest
(***************************************************************************)
(* getBaseTerrainHeightAt and the vertex loop of the central mesh.  Lerp    *)
(* factors and positions are in 1/4096, heights in thousandths.            *)
(***************************************************************************)
\* the directions of centralContourVertices[s] seen from the center: the
\* contour descends from the rock loop, angle = (i / numLargeRocks) * 2 PI,
\* so it starts on the positive x axis and runs with growing atan2(z, x)
ContourDirections == <<Pt(1, 0), Pt(0, 1), Pt(-1, 0), Pt(0, -1)>>

ContourRadii == {2, 4}

EdgeHeights == {0, 1000}

\* centralContourVertices: one radius and one height per vertex
CentralContours ==
    { [s \in 1..Len(ContourDirections) |->
          [x |-> rad[s] * 4096 * ContourDirections[s].x,
           y |-> hgt[s],
           z |-> rad[s] * 4096 * ContourDirections[s].z]] :
        rad \in [1..Len(ContourDirections) -> ContourRadii],
        hgt \in [1..Len(ContourDirections) -> EdgeHeights] }

\* baseHeight + this.perlin.noise(x * noiseScale, z * noiseScale, 0) * noiseStrength:
\* a height field that depends on the position alone
PerlinHeight(p) == 2000 + 300 * (((p.x \div 1024 + 2 * (p.z \div 1024)) % 3) - 1)

\* THREE.MathUtils.lerp(a, b, t), Vector.lerp
Lerp(a, b, t) == a + ((b - a) * t) \div 4096

\* ringLerp = 1 - Math.pow(1 - t, 2)
EaseOut(t) == 4096 - ((4096 - t) * (4096 - t)) \div 4096

\* blendFactor = Math.pow(ringLerp, 2)
BlendFactor(ringLerp) == (ringLerp * ringLerp) \div 4096

\* finalY = lerp(perlinHeight, lerp(centerPoint.y, edgePoint.y, ringLerp), blendFactor)
BlendedHeight(perlinHeight, cY, edgeY, ringLerp) ==
    Lerp(perlinHeight, Lerp(cY, edgeY, ringLerp), BlendFactor(ringLerp))

\* the body of the loops over r and s, up to the carving: basePointXZ and finalY
MeshVertex(contour, cY, r, s) ==
    LET t         == ((r + 1) * 4096) \div (NumRings + 1)
        ringLerp  == EaseOut(t)
        edgePoint == contour[s + 1]
        base      == Pt(Lerp(0, edgePoint.x, ringLerp), Lerp(0, edgePoint.z, ringLerp))
    IN  [p |-> base,
         finalY |-> BlendedHeight(PerlinHeight(base), cY, edgePoint.y, ringLerp)]

\* (Math.atan2(p.y - centerXZ.y, p.x - centerXZ.x) + Math.PI) / (2 * Math.PI),
\* in eighths of a turn, for the points on the axes and the diagonals
ProgressInEighths(p) ==
    CASE p.z = 0 /\ p.x >= 0 -> 4
      [] p.z > 0 /\ p.x = p.z -> 5
      [] p.z > 0 /\ p.x = 0 -> 6
      [] p.z > 0 /\ p.x = -p.z -> 7
      [] p.z = 0 /\ p.x < 0 -> 8
      [] p.z < 0 /\ p.x = p.z -> 1
      [] p.z < 0 /\ p.x = 0 -> 2
      [] p.z < 0 /\ p.x = -p.z -> 3

\* getBaseTerrainHeightAt(p) with the center at the origin.  With
\* progress = 1 (a point due -x of the center) s1 = numSegments:
\* centralContourVertices[s1] is undefined, lerpVectors throws and no height
\* is returned.
BaseTerrainHeight(contour, cY, p) ==
    LET numSegments == Len(contour)
        floatIndex8 == ProgressInEighths(p) * numSegments
        s1          == floatIndex8 \div 8
        s2          == (s1 + 1) % numSegments
        segmentLerp == ((floatIndex8 % 8) * 4096) \div 8
    IN  IF s1 >= numSegments THEN Undefined
        ELSE
        LET e1 == contour[s1 + 1]
            e2 == contour[s2 + 1]
            edgePoint == [x |-> Lerp(e1.x, e2.x, segmentLerp),
                          y |-> Lerp(e1.y, e2.y, segmentLerp),
                          z |-> Lerp(e1.z, e2.z, segmentLerp)]
            distToCenter == Isqrt(p.x * p.x + p.z * p.z)
            distToEdge   == Isqrt(edgePoint.x * edgePoint.x + edgePoint.z * edgePoint.z)
        IN  IF distToEdge * 1000 < 4096 THEN Defined(edgePoint.y)
            ELSE
            LET radialLerp == Min2((distToCenter * 4096) \div distToEdge, 4096)
                ringLerp   == EaseOut(radialLerp)
            IN  Defined(BlendedHeight(PerlinHeight(p), cY, edgePoint.y, ringLerp))

BaseIdle ==
    /\ basePhase = "idle"
    /\ contourVertices = << >>
    /\ centerY = 0
    /\ ringR = 0
    /\ segS = 0
    /\ meshVertices = << >>
    /\ baseHeights = << >>

\* centerPoint = (centerXZ.x, baseHeight + centerNoise * noiseStrength, centerXZ.y)
BaseEntry ==
    /\ basePhase = "mesh"
    /\ contourVertices \in CentralContours
    /\ centerY = PerlinHeight(Pt(0, 0))
    /\ ringR = 0
    /\ segS = 0
    /\ meshVertices = << >>
    /\ baseHeights = << >>

\* for (r ...) for (s ...) { ... }: one vertex, lakes and puddles aside
PushMeshVertex ==
    /\ basePhase = "mesh"
    /\ ringR < NumRings
    /\ meshVertices' = Append(meshVertices, MeshVertex(contourVertices, centerY, ringR, segS))
    /\ IF segS + 1 < Len(contourVertices)
          THEN segS' = segS + 1 /\ ringR' = ringR
          ELSE segS' = 0 /\ ringR' = ringR + 1
    /\ UNCHANGED <<basePhase, contourVertices, centerY, baseHeights>>
    /\ UNCHANGED nonBaseVars

\* r = numRings: the loop is left
EndRingLoop ==
    /\ basePhase = "mesh"
    /\ ringR = NumRings
    /\ basePhase' = "heights"
    /\ UNCHANGED <<contourVertices, centerY, ringR, segS, meshVertices, baseHeights>>
    /\ UNCHANGED nonBaseVars

\* getBaseTerrainHeightAt at the (x, z) of the next vertex
CallBaseTerrainHeight ==
    /\ basePhase = "heights"
    /\ Len(baseHeights) < Len(meshVertices)
    /\ baseHeights' = Append(baseHeights,
            BaseTerrainHeight(contourVertices, centerY, meshVertices[Len(baseHeights) + 1].p))
    /\ UNCHANGED <<basePhase, contourVertices, centerY, ringR, segS, meshVertices>>
    /\ UNCHANGED nonBaseVars

EndBaseHeights ==
    /\ basePhase = "heights"
    /\ Len(baseHeights) = Len(meshVertices)
    /\ basePhase' = "done"
    /\ UNCHANGED <<contourVertices, centerY, ringR, segS, meshVertices, baseHeights>>
    /\ UNCHANGED nonBaseVars

BaseNext ==
    \/ PushMeshVertex
    \/ EndRingLoop
    \/ CallBaseTerrainHeight
    \/ EndBaseHeights

UnitsIdle ==
    FoliageIdle /\ SamplingIdle /\ FeaturesIdle /\ RibbonIdle /\ NoiseIdle /\ SmoothIdle /\ BaseIdle

(***************************************************************************)
(* The specifications.                                                     *)
(***************************************************************************)
Init == UIInit /\ PathsIdle /\ TerrainIdle /\ UnitsIdle

Next == UINext

Spec == Init /\ [][Next]_vars

\* the event loop at rest with one model loaded and an island generated
UIQuiet ==
    /\ rockModels = 1
    /\ loads = << >>
    /\ lakes = << >>
    /\ mudPuddles = << >>
    /\ currentInnerFoliageBoundary = <<Pt(-2, -2), Pt(6, -2), Pt(6, 6), Pt(-2, 6)>>
    /\ islandSurface = 1
    /\ generateButtonDisabled = FALSE
    /\ generatePathButtonDisabled = FALSE
    /\ loadingOverlay = TRUE
    /\ timers = << >>
    /\ lastAttempts = 0

PathsInit == UIQuiet /\ PathsEntry /\ TerrainIdle /\ UnitsIdle

SpecPaths == PathsInit /\ [][PathsNext]_vars

\* the path block over node lists in which two draws of the sampling loop hit
\* the same point: randFloat is not kept from returning a pair twice
DegenerateInit == UIQuiet /\ DegenerateEntry /\ TerrainIdle /\ UnitsIdle

SpecDegenerate == DegenerateInit /\ [][PathsNext]_vars

\* the terrain block of a pass on its own
TerrainInit == UIQuiet /\ PathsIdle /\ TerrainEntry /\ UnitsIdle

SpecTerrain == TerrainInit /\ [][TerrainNext]_vars

\* one call of placeFoliageOnMesh by the foliage callback
FoliageInit ==
    UIQuiet /\ PathsIdle /\ TerrainIdle /\ FoliageEntry /\ SamplingIdle /\ FeaturesIdle /\ RibbonIdle
    /\ NoiseIdle /\ SmoothIdle /\ BaseIdle

SpecFoliage == FoliageInit /\ [][FoliageNext]_vars

\* one call of generateGraphPaths up to the triangulation; the call runs to
\* its end without interruption
SamplingInit ==
    UIQuiet /\ SamplingEntry /\ TerrainIdle /\ FoliageIdle /\ FeaturesIdle /\ RibbonIdle
    /\ NoiseIdle /\ SmoothIdle /\ BaseIdle

SpecSampling == SamplingInit /\ [][SamplingNext]_vars /\ WF_vars(SamplingNext)

\* the feature block over the passes of a session
FeaturesInit ==
    UIQuiet /\ PathsIdle /\ TerrainIdle /\ FoliageIdle /\ SamplingIdle /\ FeaturesEntry
    /\ RibbonIdle /\ NoiseIdle /\ SmoothIdle /\ BaseIdle

SpecFeatures == FeaturesInit /\ [][FeaturesNext]_vars

\* one call of createPathRibbon and the statement after it
RibbonInit ==
    UIQuiet /\ PathsIdle /\ TerrainIdle /\ FoliageIdle /\ SamplingIdle /\ FeaturesIdle
    /\ RibbonEntry /\ NoiseIdle /\ SmoothIdle /\ BaseIdle

SpecRibbon == RibbonInit /\ [][RibbonNext]_vars

\* one call of generateNoise
NoiseInit ==
    UIQuiet /\ PathsIdle /\ TerrainIdle /\ FoliageIdle /\ SamplingIdle /\ FeaturesIdle
    /\ RibbonIdle /\ NoiseEntry /\ SmoothIdle /\ BaseIdle

SpecNoise == NoiseInit /\ [][NoiseNext]_vars

\* one call of smoothAndProjectPath
SmoothInit ==
    UIQuiet /\ PathsIdle /\ TerrainIdle /\ FoliageIdle /\ SamplingIdle /\ FeaturesIdle
    /\ RibbonIdle /\ NoiseIdle /\ SmoothEntry /\ BaseIdle

SpecSmooth == SmoothInit /\ [][SmoothNext]_vars

\* the vertex loop of the central mesh, then getBaseTerrainHeightAt at its vertices
BaseInit ==
    UIQuiet /\ PathsIdle /\ TerrainIdle /\ FoliageIdle /\ SamplingIdle /\ FeaturesIdle
    /\ RibbonIdle /\ NoiseIdle /\ SmoothIdle /\ BaseEntry

SpecBaseHeight == BaseInit /\ [][BaseNext]_vars

(***************************************************************************)
(* Properties of the event loop (Spec).                                    *)
(***************************************************************************)
AllFeatures == SeqRange(lakes) \cup SeqRange(mudPuddles)

\* C1: no two generation passes overlap -- while one generateIsland
\* invocation is between its entry and its finally block, no other one is.
\* The source disables only generateButton; the add and delete buttons stay
\* enabled, so this is reached and the formula is violated.
C1_NoOverlappingPasses == Cardinality(InFlight) <= 1

\* a step of one of the five handlers that changes lakes, mudPuddles or
\* rockModels
HandlerMutation ==
    /\ \/ HandleAddLake
       \/ HandleDeleteLastLake
       \/ HandleAddMudPuddle
       \/ HandleDeleteLastMudPuddle
       \/ HandleFileSelect
    /\ <<lakes, mudPuddles, rockModels>>' # <<lakes, mudPuddles, rockModels>>

\* C2: the feature lists and the model pool are only mutated between
\* passes -- no handler step changes lakes, mudPuddles or rockModels while a
\* generateIsland invocation is in flight.  Violated: the handlers' buttons
\* and the file input are never disabled.
C2_MutatedOnlyBetweenPasses == [][InFlight # {} => ~HandlerMutation]_vars

\* C3: a feature's center is assigned at most once -- in every step, a
\* feature that has a center and stays in its list keeps that center, its
\* type and its radius; a pass changes nothing else than the contour, the
\* rim height and the water level of a centered feature.
C3_CenterAssignedOnce ==
    [][\A f \in AllFeatures : \A g \in AllFeatures' :
          (f.id = g.id /\ f.center # NoCenter) =>
              /\ g.center = f.center
              /\ g.type = f.type
              /\ g.baseRadius = f.baseRadius]_vars

\* C3 witness: a centered feature lies outside the boundary of the last
\* pass, so it was placed by an earlier pass and a regeneration on another
\* boundary has kept its center and regenerated its contour.
C3_Witness ==
    /\ Len(currentInnerFoliageBoundary) >= 3
    /\ \E f \in AllFeatures :
          /\ f.center # NoCenter
          /\ f.contourPoints
          /\ ~IsPointInPolygon(f.center, currentInnerFoliageBoundary)

\* a step in which the callback at the head of the queue is generateIsland's
\* and runs: no click and no file event takes a callback off the queue
PassRuns ==
    /\ timers # << >>
    /\ Head(timers).kind = "gen"
    /\ timers' # timers
    /\ Len(timers') <= Len(timers)

\* C10: placement makes at most 200 attempts per feature; a feature left
\* without a center has no contour, rim height or water level; and a pass
\* that ran the placement loop, failed or not, completes: it leaves a
\* terrain mesh, schedules the foliage, enables the path button, takes the
\* overlay down and gives every centered feature its contour and rim height.
C10_PlacementBoundedAndPassCompletes ==
    [][PassRuns =>
          /\ lastAttempts' <= 200
          /\ \A f \in AllFeatures' :
                f.center = NoCenter =>
                    ~f.contourPoints /\ ~f.avgRimHeight /\ ~f.waterLevel
          /\ lastAttempts' > 0 =>
                /\ islandSurface' # 0
                /\ timers' # << >>
                /\ timers'[Len(timers')] = FoliageTimer(islandSurface')
                /\ ~generatePathButtonDisabled'
                /\ \A f \in AllFeatures' :
                      f.center # NoCenter => f.contourPoints /\ f.avgRimHeight]_vars

\* C10 witness: the last pass used all 200 attempts on a feature it could
\* not place although its placement box was not empty, and it completed for
\* the terrain and for another feature.
C10_Witness ==
    /\ lastAttempts = 200
    /\ islandSurface # 0
    /\ ~generatePathButtonDisabled
    /\ \E f \in AllFeatures :
          /\ f.center = NoCenter
          /\ ~BoxIsEmpty(PlacementBox(f, currentInnerFoliageBoundary))
    /\ \E g \in AllFeatures : g.center # NoCenter /\ g.contourPoints

(***************************************************************************)
(* Properties of generateGraphPaths (SpecPaths).                           *)
(***************************************************************************)
NodeIds == 0..(Len(nodes) - 1)

\* the nodes one edge of E away from S, and S
Neighbours(E, S) ==
    S \cup {E[k].v : k \in {j \in 1..Len(E) : E[j].u \in S}}
      \cup {E[k].u : k \in {j \in 1..Len(E) : E[j].v \in S}}

\* the nodes joined to a node of S by a path of edges of E
RECURSIVE ReachableFrom(_, _)
ReachableFrom(E, S) ==
    IF Neighbours(E, S) = S THEN S ELSE ReachableFrom(E, Neighbours(E, S))

\* the connected components of the graph (NodeIds, E)
Components(E) == {ReachableFrom(E, {u}) : u \in NodeIds}

\* twice the signed area of the triangle a b c
Orient(a, b, c) == (b.x - a.x) * (c.z - a.z) - (c.x - a.x) * (b.z - a.z)

AllCollinear(pts) ==
    \A i \in 1..Len(pts) : Orient(pts[1], pts[2], pts[i]) = 0

\* the edges of the returned triangles, as pairs of nodes
TriangleEdgePairs ==
    {<<TriangleEdges(triangles[i])[k].v0, TriangleEdges(triangles[i])[k].v1>> :
        i \in 1..Len(triangles), k \in 1..3}

\* no edge of the triangulation was left out of allEdges for a lake
NoEdgeCrossesLake ==
    \A e \in TriangleEdgePairs :
        ~CrossesLake(nodes[e[1] + 1], nodes[e[2] + 1], lakeContours)

C5_SpanningForestAndLoops ==
    /\ pathPhase \in {"kruskal", "selected"} =>
          Len(mstEdges) = Len(nodes) - Cardinality(Components(mstEdges))
    /\ (pathPhase \in {"kruskal", "selected"} /\ edgeIx = Len(allEdges)) =>
          Components(mstEdges) = Components(allEdges)
    /\ pathPhase = "selected" =>
          \A k \in (Len(mstEdges) + 1)..Len(finalEdges) :
              finalEdges[k].v \in ReachableFrom(mstEdges, {finalEdges[k].u})

\* C5 witness: Kruskal rejected an edge, and the selection took it as a loop.
C5_Witness ==
    /\ pathPhase = "selected"
    /\ Len(mstEdges) = Len(nodes) - 1
    /\ Len(finalEdges) > Len(mstEdges)
    /\ Len(remainingEdges) > Len(finalEdges) - Len(mstEdges)

\* q lies strictly inside the circle through a, b, c: the sign of the
\* in-circle determinant, taken against the orientation of a b c
StrictlyInsideCircle(a, b, c, q) ==
    LET adx == a.x - q.x
        adz == a.z - q.z
        bdx == b.x - q.x
        bdz == b.z - q.z
        cdx == c.x - q.x
        cdz == c.z - q.z
        ad2 == adx * adx + adz * adz
        bd2 == bdx * bdx + bdz * bdz
        cd2 == cdx * cdx + cdz * cdz
        det == adx * (bdz * cd2 - cdz * bd2) - adz * (bdx * cd2 - cdx * bd2)
               + ad2 * (bdx * cdz - cdx * bdz)
    IN  det * Orient(a, b, c) > 0

\* C6: every triangle delaunayTriangulation returns has a circumcircle and
\* no other input point lies strictly inside it.
C6_EmptyCircumcircle ==
    pathPhase \in {"edges", "kruskal", "selected"} =>
        \A i \in 1..Len(triangles) :
            LET t == triangles[i]
                a == VertexAt(t.v0, nodes)
                b == VertexAt(t.v1, nodes)
                c == VertexAt(t.v2, nodes)
            IN  /\ Orient(a, b, c) # 0
                /\ \A q \in NodeIds \ {t.v0, t.v1, t.v2} :
                      ~StrictlyInsideCircle(a, b, c, VertexAt(q, nodes))

\* C6 witness: the four corners of a square were triangulated into two
\* triangles.
C6_Witness ==
    /\ pathPhase = "edges"
    /\ Len(nodes) = 4
    /\ {Pt(nodes[i].x, nodes[i].z) : i \in 1..4} = {Pt(0, 0), Pt(4, 0), Pt(4, 4), Pt(0, 4)}
    /\ Len(triangles) = 2

(***************************************************************************)
(* Claims about the terrain block, checked under SpecTerrain.              *)
(***************************************************************************)
\* the height the mesh stores for vertex vi when nothing but carving acts
CarvedHeight(vi) == Fround(CarvedY(vi, blendedY[vi], terrainLakes, terrainPuddles))

\* vertex vi lies within maxRadius of the center of some lake
WithinInfluenceRadius(vi) ==
    \E k \in 1..Len(terrainLakes) : WithinLakeRadius(PositionXZ(vi), terrainLakes[k])

\* no lake and no mud puddle reaches vertex vi
ZeroInfluence(vi) ==
    /\ ~WithinInfluenceRadius(vi)
    /\ \A k \in 1..Len(terrainPuddles) : ~WithinPuddle(PositionXZ(vi), terrainPuddles[k])

\* C7: with one lake and no other feature, once the heights are written
\* back every vertex within the lake's influence radius is no higher than
\* its blended height before carving, both taken at the precision of the
\* mesh.
C7_NoVertexAbovePreCarveHeight ==
    (terrainStage \in {"classify", "done"} /\ Len(terrainLakes) = 1 /\ terrainPuddles = << >>)
        => \A vi \in VertexIds :
               WithinInfluenceRadius(vi) => vertices[vi] <= Fround(blendedY[vi])

\* C8: from the load of heights to the end of stage 3 a vertex that no
\* feature reaches keeps the height it was loaded with, in the dilated mask
\* or not, and the mesh gets that height.
C8_ZeroInfluenceUntouched ==
    \A vi \in VertexIds :
        (terrainStage # "idle" /\ terrainStage # "build" /\ ZeroInfluence(vi)) =>
            /\ terrainStage \in {"dilate", "stage1", "stage2", "stage3", "writeback"}
                   => heights[vi] = CarvedHeight(vi)
            /\ terrainStage \in {"classify", "done"} => vertices[vi] = CarvedHeight(vi)

\* a finished pass in which a vertex no feature reaches was pulled into the
\* mask, stands off the mean of its neighbours, and has a neighbour that
\* the pass moved
C8_Witness ==
    /\ terrainStage = "done"
    /\ \E vi \in VertexIds :
           /\ ZeroInfluence(vi)
           /\ expandMask[vi]
           /\ influence[vi] = 0
           /\ NeighAvg(vertices, vi) # vertices[vi]
           /\ \E n \in NeighborsOf(vi) : vertices[n] # CarvedHeight(n)

\* the triples of a flat index list
TriplesOf(xs) == [k \in 1..(Len(xs) \div 3) |-> <<xs[3*k - 2], xs[3*k - 1], xs[3*k]>>]

\* how often triangle t occurs in a flat index list
Occurrences(t, xs) == Cardinality({k \in 1..(Len(xs) \div 3) : TriplesOf(xs)[k] = t})

\* the positions of the index buffer a group covers
GroupRange(g) == (g.start + 1)..(g.start + g.count)

\* C9: in the finished mesh the groups follow one another from the start of
\* the index buffer to its end without overlap, each holds whole triangles,
\* the grass and the mud group hold the grass and the mud triangles, and
\* every central triangle is in exactly one of the two lists.
C9_EveryTriangleInOneGroup ==
    terrainStage = "done" =>
        /\ groups[1].start = 0
        /\ \A k \in 1..(Len(groups) - 1) :
               groups[k + 1].start = groups[k].start + groups[k].count
        /\ groups[Len(groups)].start + groups[Len(groups)].count = Len(mergedIndices)
        /\ \A k \in 1..Len(groups) : groups[k].count % 3 = 0
        /\ \A j, k \in 1..Len(groups) :
               j # k => GroupRange(groups[j]) \cap GroupRange(groups[k]) = {}
        /\ \A p \in 1..Len(mergedIndices) :
               Cardinality({k \in 1..Len(groups) : p \in GroupRange(groups[k])}) = 1
        /\ Len(groups) = 3
        /\ groups[2].count = Len(grassIndicesFinal)
        /\ groups[3].count = Len(mudIndicesFinal)
        /\ \A i \in 1..Len(grassIndicesFinal) :
               mergedIndices[groups[2].start + i] = grassIndicesFinal[i] + GroundVertexCount
        /\ \A i \in 1..Len(mudIndicesFinal) :
               mergedIndices[groups[3].start + i] = mudIndicesFinal[i] + GroundVertexCount
        /\ \A i \in 1..Len(AllCentralAreaTriangles) :
               Occurrences(AllCentralAreaTriangles[i], grassIndicesFinal)
                   + Occurrences(AllCentralAreaTriangles[i], mudIndicesFinal) = 1

\* a finished mesh with grass triangles and mud triangles
C9_Witness ==
    /\ terrainStage = "done"
    /\ Len(grassIndicesFinal) > 0
    /\ Len(mudIndicesFinal) > 0
    /\ Len(mergedIndices) = Len(GroundCoverIndices) + 3 * Len(AllCentralAreaTriangles)

(***************************************************************************)
(* Claims about placeFoliageOnMesh, checked under SpecFoliage.             *)
(***************************************************************************)
\* the faces of the target mesh, as triples of positions
MeshFaces ==
    { <<FaceVertex(foliageMesh.positions, foliageMesh.indices, f, 1),
        FaceVertex(foliageMesh.positions, foliageMesh.indices, f, 2),
        FaceVertex(foliageMesh.positions, foliageMesh.indices, f, 3)>> :
      f \in 1..(Len(foliageMesh.indices) \div 3) }

\* the face passes the slope, the sea level and the two boundary tests
PassesFourTests(t) ==
    LET n == RawNormal(t[1], t[2], t[3])
        onSlope == IF LengthSq(n) = 0 THEN foliageOptions.maxSlope = 0
                   ELSE n.y >= 0 /\ 4 * n.y * n.y >=
                            foliageOptions.maxSlope * foliageOptions.maxSlope * LengthSq(n)
        c == Pt(t[1].x + t[2].x + t[3].x, t[1].z + t[2].z + t[3].z)
    IN  /\ onSlope
        /\ t[1].y > 0 \/ t[2].y > 0 \/ t[3].y > 0
        /\ IsPointInPolygon(c, Times3(foliageOptions.outerBoundary))
        /\ ~IsPointInPolygon(c, Times3(foliageOptions.innerBoundary))

\* p, kept times four, is a convex combination of the vertices of t
ConvexCombination(p, t) ==
    \E u \in 0..4 : \E v \in 0..(4 - u) :
        /\ p.x = u * t[1].x + v * t[2].x + (4 - u - v) * t[3].x
        /\ p.y = u * t[1].y + v * t[2].y + (4 - u - v) * t[3].y
        /\ p.z = u * t[1].z + v * t[2].z + (4 - u - v) * t[3].z

\* C11: every instance position is a convex combination of the three
\* vertices of a face of the target mesh that passed the four tests.
C11_InstancesOnAcceptedFaces ==
    foliagePhase # "idle" =>
        \A i \in 1..Len(pivotPoints) :
            \E t \in MeshFaces : PassesFourTests(t) /\ ConvexCombination(pivotPoints[i], t)

\* a finished call that placed instances, on a mesh with a face each test
\* but the slope rejected and with a pair (u, v) that was reflected
C11_Witness ==
    /\ foliagePhase = "done"
    /\ Len(pivotPoints) >= 1
    /\ \E t \in MeshFaces :
           IsPointInPolygon(Pt(t[1].x + t[2].x + t[3].x, t[1].z + t[2].z + t[3].z),
                            Times3(foliageOptions.innerBoundary))
    /\ \E t \in MeshFaces : ~PassesFourTests(t) /\ RawNormal(t[1], t[2], t[3]).y < 0
    /\ \E i \in 1..Len(pivotPoints) : \E f \in 1..Len(validFaces) :
           pivotPoints[i] = WeightedPoint(validFaces[f], <<1, 1, 2>>)

\* C12: the instances placed are at most floor(totalArea / 100 * density)
\* and, when the maximum count input holds a count, at most that count.
C12_InstanceCountBounded ==
    foliagePhase \in {"instances", "done"} =>
        /\ Len(pivotPoints) <= (totalArea * foliageOptions.density) \div 10000
        /\ foliageOptions.maxCount.given => Len(pivotPoints) <= foliageOptions.maxCount.count

\* a finished call whose maximum count is below the count the area gives,
\* and which placed as many instances as the maximum allows
C12_Witness ==
    /\ foliagePhase = "done"
    /\ foliageOptions.maxCount.given
    /\ foliageOptions.maxCount.count < (totalArea * foliageOptions.density) \div 10000
    /\ Len(pivotPoints) = foliageOptions.maxCount.count
    /\ Len(pivotPoints) > 0

(***************************************************************************)
(* Claims about the sampling loop, checked under SpecSampling.             *)
(***************************************************************************)
\* the bounds of the loop and the state it gives up in
SamplingBounds ==
    /\ attempts <= 100 * numPoints
    /\ Len(nodes) <= numPoints
    /\ pathPhase = "triangulate" => Len(nodes) >= 3
    /\ pathPhase = "aborted" =>
           /\ Len(nodes) < 3
           /\ triangles = << >>
           /\ pathGroup = << >>
           /\ ~loadingOverlay

\* C13: the sampling loop makes at most 100 x numPoints attempts, accepts at
\* most numPoints nodes and makes no attempt once numPoints are accepted;
\* a call with fewer than 3 nodes returns with no triangle, no ribbon and
\* the overlay hidden; and every call leaves the loop.
C13_SamplingTerminates ==
    /\ []SamplingBounds
    /\ [][Len(nodes) = numPoints => (attempts' = attempts /\ nodes' = nodes)]_vars
    /\ <>(pathPhase \in {"aborted", "triangulate"})

\* a call that used up all its attempts, placed fewer than 3 nodes of the 3
\* or more it was asked for, and gave up
C13_Witness ==
    /\ pathPhase = "aborted"
    /\ numPoints >= 3
    /\ attempts = 100 * numPoints
    /\ Len(nodes) = 2

(***************************************************************************)
(* Carving and relaxation run again on their own result, checked under     *)
(* SpecTerrain.                                                            *)
(***************************************************************************)
\* the dilation passes, and the iterations of stage 1 and of stage 3, run
\* from pass it to the last
RECURSIVE DilateFrom(_, _, _)
DilateFrom(mask, it, passes) ==
    IF it >= passes THEN mask ELSE DilateFrom(Dilate(mask), it + 1, passes)

RECURSIVE Stage1From(_, _, _, _, _)
Stage1From(h, inf, mask, it, iter) ==
    IF it >= iter THEN h
    ELSE LET next == Stage1Pass(h, inf, mask, it, iter)
         IN  IF next = h THEN Stage1From(h, inf, mask, it + 1, iter)
             ELSE Stage1From(next, inf, mask, it + 1, iter)

RECURSIVE Stage3From(_, _, _, _, _)
Stage3From(h, inf, mask, it, iter) ==
    IF it >= iter THEN h
    ELSE LET next == Stage3Pass(h, inf, mask, it, iter)
         IN  IF next = h THEN Stage3From(h, inf, mask, it + 1, iter)
             ELSE Stage3From(next, inf, mask, it + 1, iter)

\* the heights written back when the vertex loops and the relaxation pass
\* run over the terrain y with the lakes ls and the mud puddles ps
CarveAndRelax(y, ls, ps) ==
    LET carved == [vi \in VertexIds |-> Fround(CarvedY(vi, y[vi], ls, ps))]
        inf == [vi \in VertexIds |-> InfluenceAt(vi, ls, ps)]
        mask == DilateFrom(InitialMask(inf, ps), 0, DilationPasses(ps))
        stage1 == Stage1From(carved, inf, mask, 0, Stage1Iter(ps))
        stage2 == Stage2Pass(stage1, inf, mask, ls, ps)
    IN  Stage3From(stage2, inf, mask, 0, Stage3Iter(ps))

\* the target of vertex vi: rimHeight - depth * influence, the lowest over
\* the features that reach it
TargetHeight(vi) ==
    Fround(CarvedY(vi, 1000000, terrainLakes, terrainPuddles))

\* vertex vi is reached by a feature and direct carving left it at its
\* target
AtTarget(vi) ==
    /\ InfluenceAt(vi, terrainLakes, terrainPuddles) > 0
    /\ Fround(vertices[vi]) = TargetHeight(vi)

\* C18: carving and relaxing a height field that is carved already does
\* not lower a vertex that lies at its target; and once the heights are
\* written back no vertex is higher than its blended height before carving,
\* and only vertices of influence greater than 0 are lower.  Violated: the
\* Laplacian stages move a vertex toward the mean of its neighbours,
\* below its target or above its height before carving.
C18_CarvingIdempotentAndMonotone ==
    /\ terrainStage = "carved" =>
           LET again == CarveAndRelax(vertices, terrainLakes, terrainPuddles)
           IN  \A vi \in VertexIds : AtTarget(vi) => again[vi] >= Fround(vertices[vi])
    /\ terrainStage = "done" =>
           /\ \A vi \in VertexIds : vertices[vi] <= Fround(blendedY[vi])
           /\ \A vi \in VertexIds :
                  vertices[vi] # Fround(blendedY[vi]) => influence[vi] > 0

\* the operators above compute what the actions compute
CarveAndRelaxIsThePass ==
    terrainStage = "done" => vertices = CarveAndRelax(blendedY, terrainLakes, terrainPuddles)

(***************************************************************************)
(* Which vertices the vertex loops carve for a lake, checked under         *)
(* SpecTerrain in the state the loops leave, before the relaxation.        *)
(***************************************************************************)
\* avgRimHeight - depth * influence of lake k at vertex vi, with
\* influence = 1 - smoothstep(distance, 0, maxRadius)
DepressionCeiling(vi, k) ==
    terrainLakes[k].avgRimHeight
    - (terrainLakes[k].depth
       * SmoothFalloff(RadialFraction(DistSq(PositionXZ(vi), terrainLakes[k].center),
                                      LakeMaxRadius10(terrainLakes[k])))) \div 1000

\* the lakes within whose maximum influence radius vertex vi lies, and the
\* lakes whose contour holds it
LakesInRadius(vi) ==
    {k \in 1..Len(terrainLakes) : WithinLakeRadius(PositionXZ(vi), terrainLakes[k])}

LakesAround(vi) ==
    {k \in 1..Len(terrainLakes) :
        IsPointInPolygon2D(PositionXZ(vi), terrainLakes[k].contourPoints)}

\* min(currentHeight, ceiling) over the lakes of K
ClampedBelow(vi, K) == MinOf({blendedY[vi]} \cup {DepressionCeiling(vi, k) : k \in K})

\* C20 as stated: after the vertex loops every vertex within the maximum
\* influence radius of a lake is clamped to min(currentHeight, avgRimHeight
\* - depth * influence), and the radius alone decides.  Violated: the loops
\* carve a vertex for a lake only when the lake's contour holds it.
C20_RadiusAloneDecides ==
    terrainStage = "carved" =>
        /\ \A vi \in VertexIds : \A k \in LakesInRadius(vi) :
               vertices[vi] <= DepressionCeiling(vi, k)
        /\ terrainPuddles = << >> =>
               \A vi \in VertexIds : vertices[vi] = ClampedBelow(vi, LakesInRadius(vi))

\* C20, amended: after the vertex loops every ring and contour vertex that
\* a lake's contour holds is clamped to min(currentHeight, avgRimHeight -
\* depth * influence), and a vertex outside every contour is not carved for
\* a lake, whatever its distance to the center.
C20_ContourDecides ==
    terrainStage = "carved" =>
        /\ \A vi \in VertexIds \ {0} : \A k \in LakesAround(vi) :
               vertices[vi] <= DepressionCeiling(vi, k)
        /\ terrainPuddles = << >> =>
               /\ \A vi \in VertexIds \ {0} :
                      vertices[vi] = ClampedBelow(vi, LakesAround(vi))
               /\ \A vi \in VertexIds :
                      LakesAround(vi) = {} => vertices[vi] = blendedY[vi]

\* C20 witness: the loops lowered a vertex inside the contour of the lake
\* and left a vertex that is within the radius, outside the contour and
\* above the ceiling where it was.
C20_Witness ==
    /\ terrainStage = "carved"
    /\ terrainPuddles = << >>
    /\ \E vi \in VertexIds :
           LakesAround(vi) # {} /\ vertices[vi] < blendedY[vi]
    /\ \E vi \in VertexIds \ {0} : \E k \in LakesInRadius(vi) :
           /\ LakesAround(vi) = {}
           /\ vertices[vi] = blendedY[vi]
           /\ vertices[vi] > DepressionCeiling(vi, k)

(***************************************************************************)
(* The size of the selection, checked under SpecPaths.                     *)
(***************************************************************************)
\* the angle at a between b and c is a right angle
RightAngleAt(a, b, c) ==
    (b.x - a.x) * (c.x - a.x) + (b.z - a.z) * (c.z - a.z) = 0 /\ a # b /\ a # c

\* three nodes at the corners of a right triangle
RightTriangle(pts) ==
    /\ Len(pts) = 3
    /\ \/ RightAngleAt(pts[1], pts[2], pts[3])
       \/ RightAngleAt(pts[2], pts[1], pts[3])
       \/ RightAngleAt(pts[3], pts[1], pts[2])

\* C15: with loop percentage 0, three nodes at the corners of a right
\* triangle and no lake give exactly 2 selected edges; and whenever the
\* filtered edge list joins all n nodes, exactly n - 1 edges are selected.
C15_SpanningTreeEdgeCount ==
    (pathPhase = "selected" /\ loopPercentage = 0) =>
        /\ (RightTriangle(nodes) /\ lakeContours = << >>) => Len(finalEdges) = 2
        /\ Cardinality(Components(allEdges)) = 1 => Len(finalEdges) = Len(nodes) - 1

\* C15 witness: the right triangle (0,0), (4,0), (0,4) without a lake, its
\* three edges collected, two of them selected and the third left over.
C15_Witness ==
    /\ pathPhase = "selected"
    /\ loopPercentage = 0
    /\ lakeContours = << >>
    /\ RightTriangle(nodes)
    /\ Len(allEdges) = 3
    /\ Len(remainingEdges) = 1
    /\ Len(finalEdges) = 2

Requested(f) == ~f.center.defined /\ ~f.contourPoints.defined /\ ~f.avgRimHeight.defined
Centered(f) == f.center.defined /\ ~f.contourPoints.defined /\ ~f.avgRimHeight.defined
Contoured(f) == f.center.defined /\ f.contourPoints.defined /\ f.avgRimHeight.defined

\* between two passes a feature with a contour has a center and a rim
\* height, and a feature without a center has neither contour nor rim height
FeatureStatesConsistent ==
    featurePhase = "between" =>
        \A i \in 1..Len(allFeatures) :
            /\ allFeatures[i].contourPoints.defined =>
                   allFeatures[i].center.defined /\ allFeatures[i].avgRimHeight.defined
            /\ ~allFeatures[i].center.defined =>
                   ~allFeatures[i].contourPoints.defined /\ ~allFeatures[i].avgRimHeight.defined

\* a step gives a contour or a rim height only to a feature that has a
\* center and no contour, and gives it both
ContourOnlyForCentered ==
    \A i \in 1..Len(allFeatures) :
        (/\ Len(allFeatures') = Len(allFeatures)
         /\ \/ allFeatures'[i].contourPoints.defined /\ ~allFeatures[i].contourPoints.defined
            \/ allFeatures'[i].avgRimHeight.defined /\ ~allFeatures[i].avgRimHeight.defined)
            => Centered(allFeatures[i]) /\ Contoured(allFeatures'[i])

IndicesBelow(index, count) == \A i \in 1..Len(index) : index[i] \in 0..(count - 1)

\* C16: a path of n >= 2 points returns one mesh of 2n vertices and
\* 2(n - 1) triangles whose indices lie in [0, 2n), and that mesh is added;
\* a path of fewer than 2 points returns null and nothing is added.
C16_RibbonMeshShape ==
    LET n == Len(path3D)
    IN  /\ ribbonPhase \in {"returned", "done"} =>
              IF n >= 2
              THEN /\ pathMesh.isMesh
                   /\ Len(pathMesh.position) = 3 * (2 * n)
                   /\ Len(pathMesh.index) = 3 * (2 * (n - 1))
                   /\ IndicesBelow(pathMesh.index, 2 * n)
              ELSE pathMesh = NullMesh
        /\ ribbonPhase = "done" => Len(pathGroup) = IF n >= 2 THEN 1 ELSE 0
        /\ ribbonPhase # "done" => pathGroup = << >>

\* C16 witness: a path of MaxPathPoints points that doubles back over
\* itself gave a mesh that uses its last vertex, and the mesh was added.
C16_Witness ==
    /\ ribbonPhase = "done"
    /\ Len(path3D) = MaxPathPoints
    /\ path3D[1] = path3D[3]
    /\ Len(pathGroup) = 1
    /\ \E i \in 1..Len(pathGroup[1].index) : pathGroup[1].index[i] = 2 * MaxPathPoints - 1

\* C16 witness for the short path: a path of one point returned null and
\* pathGroup stayed empty.
C16_ShortPathWitness ==
    ribbonPhase = "done" /\ Len(path3D) = 1 /\ pathMesh = NullMesh /\ pathGroup = << >>

(***************************************************************************)
(* Claims about generateNoise, checked under SpecNoise.                    *)
(***************************************************************************)
\* every returned value lies in [-1.05, 1.05]
NoiseInRange == \A i \in 1..Len(noiseValues) : noiseValues[i] \in -1050..1050

EdgesBuilt == pathPhase \in {"kruskal", "selected"}

\* no two entries of allEdges join the same pair of nodes, in either order
EachPairOnce ==
    \A i, j \in 1..Len(allEdges) :
        i # j => {allEdges[i].u, allEdges[i].v} # {allEdges[j].u, allEdges[j].v}

\* the squared length of an edge on the map, and in space
PlanarLengthSq(e) ==
    (nodes[e.u + 1].x - nodes[e.v + 1].x) * (nodes[e.u + 1].x - nodes[e.v + 1].x)
    + (nodes[e.u + 1].z - nodes[e.v + 1].z) * (nodes[e.u + 1].z - nodes[e.v + 1].z)

SpatialLengthSq(e) ==
    PlanarLengthSq(e)
    + (nodes[e.u + 1].y - nodes[e.v + 1].y) * (nodes[e.u + 1].y - nodes[e.v + 1].y)

ShortPathNotFitted ==
    (smoothPhase = "returned" /\ Len(rawPath) < 3) =>
        /\ smoothedPoints = << >>
        /\ projected = ProjectPathToSurface(InThousandths(rawPath))

\* C22 as stated: a raw path of n >= 3 points is sampled at exactly 2n
\* points before it is projected, and a shorter one is projected as it is.
\* Violated: the loop runs from 0 to divisions, both ends included.
C22_SampledAtTwiceTheCount ==
    /\ (smoothPhase = "returned" /\ Len(rawPath) >= 3) =>
           Len(smoothedPoints) = 2 * Len(rawPath)
    /\ ShortPathNotFitted

\* C22, amended: a raw path of n >= 3 points is sampled at exactly 2n + 1
\* points, the ends of 2n equal divisions of the curve, from its first
\* point to its last, before it is projected; a shorter one is projected
\* as it is.
C22_SampledAtTwiceTheCountPlusOne ==
    /\ (smoothPhase = "returned" /\ Len(rawPath) >= 3) =>
           /\ Len(smoothedPoints) = 2 * Len(rawPath) + 1
           /\ smoothedPoints[1] = InThousandths(rawPath)[1]
           /\ smoothedPoints[Len(smoothedPoints)] = InThousandths(rawPath)[Len(rawPath)]
           /\ projected = ProjectPathToSurface(smoothedPoints)
    /\ ShortPathNotFitted

\* C22 witness: a raw path of MaxRawPoints points was sampled, the curve
\* left the surface between two of them, and fewer points came back than
\* were sampled.
C22_Witness ==
    /\ smoothPhase = "returned"
    /\ Len(rawPath) = MaxRawPoints
    /\ Len(smoothedPoints) = 2 * MaxRawPoints + 1
    /\ Len(projected.path) < Len(smoothedPoints)
    /\ Len(projected.path) >= 2


(***************************************************************************)
(* C23: triangles with a zero circumcircle determinant.                    *)
(***************************************************************************)
\* D = 0 for the triangle t over the current nodes
ZeroDeterminant(t) ==
    CircumD(VertexAt(t.v0, nodes), VertexAt(t.v1, nodes), VertexAt(t.v2, nodes)) = 0

\* triangles after the first k points of the forEach
RECURSIVE TrianglesAfter(_)
TrianglesAfter(k) ==
    IF k = 0 THEN <<Triangle(-1, -2, -3)>>
    ELSE InsertPoint(TrianglesAfter(k - 1), k - 1, nodes)

\* some triangle the forEach went through had D = 0
MetZeroDeterminant ==
    \E k \in 0..Len(nodes) :
        \E i \in 1..Len(TrianglesAfter(k)) : ZeroDeterminant(TrianglesAfter(k)[i])

RingOf(k) == (k - 1) \div Len(contourVertices)
SegmentOf(k) == (k - 1) % Len(contourVertices)

\* C24: evaluated at the (x, z) of any vertex of the central mesh,
\* getBaseTerrainHeightAt returns the height the vertex loop gave that vertex
\* before carving.
C24_BaseHeightAgreesWithMesh ==
    \A k \in 1..Len(baseHeights) :
        /\ baseHeights[k].defined
        /\ baseHeights[k].value = meshVertices[k].finalY


(***************************************************************************)
(* C25: the edges that are drawn.                                          *)
(***************************************************************************)
\* the {u, v} of the edges of a list
PairsOf(edges) == { {edges[i].u, edges[i].v} : i \in 1..Len(edges) }

\* the edges Kruskal turned down: the filtered edges that are not in the tree
RejectedPairs == PairsOf(allEdges) \ PairsOf(mstEdges)

\* loops, the part of finalEdges behind the tree
LoopsOf(edges) == SubSeq(edges, Len(mstEdges) + 1, Len(edges))

\* C25: finalEdges is the tree edges followed by exactly
\* floor(|remainingEdges| * loopPercentage) edges, each of them an edge
\* Kruskal rejected and none of them twice; at 0 percent there is none, at
\* 100 percent every filtered edge is in finalEdges.
C25_TreePlusFloorOfRejected ==
    pathPhase = "selected" =>
        /\ SubSeq(finalEdges, 1, Len(mstEdges)) = mstEdges
        /\ Len(LoopsOf(finalEdges)) = (Len(remainingEdges) * loopPercentage) \div 100
        /\ PairsOf(LoopsOf(finalEdges)) \subseteq RejectedPairs
        /\ Cardinality(PairsOf(finalEdges)) = Len(finalEdges)
        /\ loopPercentage = 0 => finalEdges = mstEdges
        /\ loopPercentage = 100 => PairsOf(finalEdges) = PairsOf(allEdges)

\* half of two rejected edges was added to a tree
C25_Witness ==
    /\ pathPhase = "selected"
    /\ loopPercentage = 50
    /\ Len(remainingEdges) = 2
    /\ Len(finalEdges) = Len(mstEdges) + 1
    /\ Len(mstEdges) > 0


(***************************************************************************)
(* C26: how long an added lake stays.                                      *)
(***************************************************************************)
\* the step pops the last lake: handleDeleteLastLake
DeleteLastLakeStep ==
    /\ Len(lakes) > 0
    /\ lakes' = SubSeq(lakes, 1, Len(lakes) - 1)
    /\ timers' = timers \/ timers' = Append(timers, RegenTimer)

\* the step runs the callback at the head of the queue: the queue changes
\* and does not grow (a click only appends)
HeadTimerFires ==
    /\ timers # << >>
    /\ timers' # timers
    /\ Len(timers') <= Len(timers)

\* the step is the timer of a generateIsland(false)
FullGenerationStep ==
    /\ HeadTimerFires
    /\ Head(timers).kind = "gen"
    /\ ~Head(timers).regen

\* the lake f is no longer in this.lakes after the step
LakeRemoved(f) == \A j \in 1..Len(lakes') : lakes'[j].id # f.id

\* C26: a lake leaves this.lakes only in handleDeleteLastLake or in a full
\* generation that was requested after the lake was added; a full generation
\* that was already waiting for its timer when the lake was added never
\* removes it.
C26_AddedLakeOutlivesEarlierRequests ==
    [][\A i \in 1..Len(lakes) :
          LakeRemoved(lakes[i]) =>
              \/ DeleteLastLakeStep
              \/ FullGenerationStep /\ ~lakes[i].afterRequest]_vars


(***************************************************************************)
(* C27: the mesh the foliage callback works on.                            *)
(***************************************************************************)
\* the step runs the callback generateFoliage scheduled
FoliageCallbackStep ==
    /\ timers # << >>
    /\ Head(timers).kind = "foliage"
    /\ timers' = Tail(timers)

\* C27: when the callback scheduled by generateFoliage runs, its targetMesh
\* is the mesh this.islandSurface holds at that moment, never a mesh a later
\* pass has disposed and replaced.
C27_FoliageOnCurrentSurface ==
    [][FoliageCallbackStep => Head(timers).mesh = islandSurface]_vars


(***************************************************************************)
(* C28: the Generate Paths button and islandSurface.                       *)
(***************************************************************************)
\* the step is the timer of a generateIsland invocation: the invocation ends
GenerationStep ==
    /\ HeadTimerFires
    /\ Head(timers).kind = "gen"

NothingPending == timers = << >> /\ loads = << >>

\* the overlay is hidden and generateButton is enabled exactly when
\* rockModels is not empty
AtRest == ~loadingOverlay /\ (generateButtonDisabled <=> rockModels = 0)

\* C29: every step that ends the last pending operation, or an operation
\* that had the overlay shown, leaves the overlay hidden and the Generate
\* button enabled exactly when rockModels is not empty, exceptions included.
C29_OverlayHiddenAtRest ==
    [][((~NothingPending \/ loadingOverlay) /\ NothingPending') => AtRest']_vars


(***************************************************************************)
(* C30: the distance between placed features.                              *)
(***************************************************************************)
\* f and g are two features with a center
BothPlaced(f, g) == f.id # g.id /\ f.center # NoCenter /\ g.center # NoCenter

\* C30: whatever was added, deleted and regenerated, two features that both
\* have a center lie at least the sum of their base radii plus 2.0 apart.
C30_PlacedFeaturesApart ==
    \A f \in AllFeatures : \A g \in AllFeatures :
        BothPlaced(f, g) =>
            DistSq(f.center, g.center) >=
                (f.baseRadius + g.baseRadius + PlacementGap)
                    * (f.baseRadius + g.baseRadius + PlacementGap)

\* a lake and a mud puddle are both placed
C30_Witness ==
    \E f \in AllFeatures : \E g \in AllFeatures :
        BothPlaced(f, g) /\ f.type = "lake" /\ g.type = "mud_puddle"

=============================================================================
